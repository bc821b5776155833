------------------------- MODULE Configuration_proofs -------------------------
(***************************************************************************)
(* A configuration that was accepted is carried out to the letter, and the *)
(* scale set keeps its namespace and gets its labels, for any files and    *)
(* environments that processes are started with, any number of starts, any *)
(* widths of the numbers and any sizes of the image.                       *)
(***************************************************************************)
EXTENDS Configuration, FiniteSetTheorems, SequenceTheorems, TLAPS

-----------------------------------------------------------------------------
(* The operators.                                                          *)

\* Spelling is all that the helpers on texts change.
LEMMA TextTypes ==
  ASSUME NEW text \in AnyText
  PROVE  /\ TrimSpace(text) \in AnyText /\ ToLower(text) \in AnyText
         /\ TrimSpace(text).word = text.word /\ TrimSpace(text).upper = text.upper
         /\ TrimSpace(text).padded = FALSE
         /\ ToLower(text).word = text.word /\ ToLower(text).padded = text.padded
         /\ ToLower(text).upper = FALSE
         /\ TrimSpace(TrimSpace(text)) = TrimSpace(text)
BY DEF TrimSpace, ToLower, AnyText

\* A text is what it says and how it is spelled.
LEMMA SameText ==
  ASSUME NEW a \in AnyText, NEW b \in AnyText,
         a.word = b.word, a.upper = b.upper, a.padded = b.padded
  PROVE  a = b
BY DEF AnyText

\* There is nothing in an empty text.
LEMMA EmptyText == Empty \in AnyText /\ Blank(Empty)
<1>1. Empty \in AnyText
  <2>1. "" \in Words
    BY WordsAssumption
  <2> QED
    BY <2>1 DEF Empty, AnyText
<1>2. Empty.word = "" /\ Empty.upper = FALSE /\ Empty.padded = FALSE
  BY DEF Empty
<1>3. TrimSpace(Empty) = Empty
  <2>1. /\ TrimSpace(Empty) \in AnyText /\ TrimSpace(Empty).word = Empty.word
        /\ TrimSpace(Empty).upper = Empty.upper /\ TrimSpace(Empty).padded = Empty.padded
    BY <1>1, <1>2, TextTypes
  <2> QED
    BY <1>1, <2>1, SameText
<1> QED
  BY <1>1, <1>3 DEF Blank

\* Mapping the elements of a sequence makes a sequence.
LEMMA MappedSeq ==
  ASSUME NEW S, NEW T, NEW s \in Seq(S), NEW t \in [DOMAIN s -> T]
  PROVE  t \in Seq(T)
<1>1. DOMAIN s = 1 .. Len(s) /\ Len(s) \in Nat
  BY LenProperties
<1> QED
  BY <1>1, SeqDef

\* What fallbacks make of a file is a file.
LEMMA FilledType ==
  ASSUME NEW file \in AnyFile, NEW env \in AnyEnv
  PROVE  ApplyEnvFallbacks(file, env) \in AnyFile
<1>1. file.auth \in [app : AnyText \union {None}, pat : AnyText \union {None}]
  BY DEF AnyFile
<1>2. AuthFallback(file.auth, env) \in [app : AnyText \union {None}, pat : AnyText \union {None}]
  BY <1>1 DEF AuthFallback, OrElse, AnyEnv
<1>3. /\ OrElse(file.host, env.host) \in AnyText /\ OrElse(file.token, env.token) \in AnyText
  BY DEF OrElse, AnyFile, AnyEnv
<1> QED
  BY <1>2, <1>3 DEF ApplyEnvFallbacks, AnyFile

\* The canonical form of a scope is the address of one.
LEMMA ScopeType ==
  ASSUME NEW url \in AnyURL
  PROVE  CanonicalScope(url) \in AnyURL
<1> DEFINE path == [i \in DOMAIN url.path |-> ToLower(TrimSpace(url.path[i]))]
<1>1. url.path \in Seq(AnyText) /\ url.scheme \in AnyText /\ url.host \in AnyText
  BY DEF AnyURL
<1>2. path \in Seq(AnyText)
  <2>1. path \in [DOMAIN url.path -> AnyText]
    <3>1. \A i \in DOMAIN url.path : url.path[i] \in AnyText
      BY <1>1
    <3> QED
      BY <3>1, TextTypes
  <2> QED
    BY <1>1, <2>1, MappedSeq
<1>3. CanonicalHost(url.host) \in {t \in AnyText : ~t.padded}
  <2>1. url.host \in AnyText /\ ~url.host.padded
    BY DEF AnyURL
  <2>2. ToLower(url.host) \in AnyText /\ ~ToLower(url.host).padded
    BY <2>1, TextTypes
  <2>3. "github.com" \in Words
    BY WordsAssumption
  <2>4. CASE ToLower(url.host).word = "www.github.com"
    <3>1. CanonicalHost(url.host) = [ToLower(url.host) EXCEPT !.word = "github.com"]
      BY <2>4 DEF CanonicalHost
    <3> QED
      BY <2>2, <2>3, <3>1 DEF AnyText
  <2>5. CASE ToLower(url.host).word # "www.github.com"
    <3>1. CanonicalHost(url.host) = [ToLower(url.host) EXCEPT !.word = ToLower(url.host).word]
      BY <2>5 DEF CanonicalHost
    <3> QED
      BY <2>2, <3>1 DEF AnyText
  <2> QED
    BY <2>4, <2>5
<1>4. ToLower(TrimSpace(url.scheme)) \in AnyText
  BY <1>1, TextTypes
<1> HIDE DEF path
<1> DEFINE host == CanonicalHost(url.host)
           scheme == ToLower(TrimSpace(url.scheme))
           port == IF url.port = "443" THEN "" ELSE url.port
<1>5. CanonicalScope(url) =
        [url EXCEPT !.scheme = scheme, !.host = host, !.port = port, !.path = path]
  BY DEF CanonicalScope, path
<1>6. port \in Words
  <2>1. "" \in Words /\ url.port \in Words
    BY WordsAssumption DEF AnyURL
  <2> QED
    BY <2>1
<1> HIDE DEF host, scheme, port
<1>7. scheme \in AnyText /\ host \in {t \in AnyText : ~t.padded}
  BY <1>3, <1>4 DEF scheme, host
<1> QED
  BY <1>2, <1>5, <1>6, <1>7 DEF AnyURL

\* Normalizing a configuration changes no number in it, and keeps it one.
LEMMA NormalizedType ==
  ASSUME NEW c \in AnyFile
  PROVE  /\ Normalized(c) \in AnyFile
         /\ Normalized(c).url = CanonicalScope(c.url)
         /\ Normalized(c).project = TrimSpace(c.project)
         /\ Normalized(c).name = TrimSpace(c.name)
         /\ Normalized(c).labels = [i \in DOMAIN c.labels |-> TrimSpace(c.labels[i])]
         /\ Normalized(c).min = c.min /\ Normalized(c).max = c.max
         /\ Normalized(c).disk = c.disk /\ Normalized(c).cpus = c.cpus
         /\ Normalized(c).memory = c.memory
<1> DEFINE url == CanonicalScope(c.url)
           pat == IF c.auth.pat = None THEN None ELSE TrimSpace(c.auth.pat)
           auth == [c.auth EXCEPT !.pat = pat]
           host == TrimSpace(c.host)
           token == TrimSpace(c.token)
           name == TrimSpace(c.name)
           project == TrimSpace(c.project)
           names == [i \in DOMAIN c.labels |-> TrimSpace(c.labels[i])]
<1>1. Normalized(c) = [c EXCEPT !.url = url, !.auth.pat = pat, !.host = host, !.token = token,
                                !.name = name, !.project = project, !.labels = names]
  BY DEF Normalized
<1>2. url \in AnyURL
  BY ScopeType DEF AnyFile
<1>3. auth \in [app : AnyText \union {None}, pat : AnyText \union {None}]
  <2>1. c.auth \in [app : AnyText \union {None}, pat : AnyText \union {None}]
    BY DEF AnyFile
  <2>2. pat \in AnyText \union {None}
    BY <2>1, TextTypes
  <2> HIDE DEF pat
  <2> QED
    BY <2>1, <2>2
<1>4. host \in AnyText /\ token \in AnyText /\ name \in AnyText /\ project \in AnyText
  BY TextTypes DEF AnyFile
<1>5. names \in Seq(AnyText)
  <2>1. c.labels \in Seq(AnyText)
    BY DEF AnyFile
  <2>2. \A i \in DOMAIN c.labels : c.labels[i] \in AnyText
    BY <2>1
  <2>3. names \in [DOMAIN c.labels -> AnyText]
    BY <2>2, TextTypes
  <2> QED
    BY <2>1, <2>3, MappedSeq
<1>6. Normalized(c) = [c EXCEPT !.url = url, !.auth = auth, !.host = host, !.token = token,
                                !.name = name, !.project = project, !.labels = names]
  BY <1>1
<1> HIDE DEF url, pat, auth, host, token, name, project, names
<1>7. /\ Normalized(c) \in AnyFile
      /\ Normalized(c).url = url /\ Normalized(c).project = project
      /\ Normalized(c).name = name /\ Normalized(c).labels = names
      /\ Normalized(c).min = c.min /\ Normalized(c).max = c.max
      /\ Normalized(c).disk = c.disk /\ Normalized(c).cpus = c.cpus
      /\ Normalized(c).memory = c.memory
  BY ZenonT(30), <1>2, <1>3, <1>4, <1>5, <1>6 DEF AnyFile
<1> QED
  BY <1>7 DEF url, project, name, names

\* If a file needs nothing of the environment, it takes nothing from it.
LEMMA OnlyGapsAreFilled ==
  ASSUME NEW file \in AnyFile, NEW env \in AnyEnv, IsValid(ApplyEnvFallbacks(file, NoEnv))
  PROVE  ApplyEnvFallbacks(file, env) = ApplyEnvFallbacks(file, NoEnv)
<1>1. \A text : OrElse(text, Empty) = text
  BY DEF OrElse
<1>2. file.auth \in [app : AnyText \union {None}, pat : AnyText \union {None}]
  BY DEF AnyFile
<1>3. /\ NoEnv.host = Empty /\ NoEnv.token = Empty
      /\ NoEnv.appKey = Empty /\ NoEnv.githubToken = Empty
  BY DEF NoEnv
<1>4. AuthFallback(file.auth, NoEnv) = file.auth
  BY <1>1, <1>2, <1>3 DEF AuthFallback
<1>5. ASSUME NEW e, AuthFallback(file.auth, e) = file.auth,
             OrElse(file.host, e.host) = file.host, OrElse(file.token, e.token) = file.token
      PROVE  ApplyEnvFallbacks(file, e) = file
  BY <1>5 DEF ApplyEnvFallbacks, AnyFile
<1>6. ApplyEnvFallbacks(file, NoEnv) = file
  BY <1>1, <1>3, <1>4, <1>5
<1>7. file.host # Empty /\ file.token # Empty
  BY <1>6, EmptyText DEF IsValid
<1>8. \A text : text # Empty => OrElse(text, env.host) = text /\ OrElse(text, env.token) = text
                                /\ OrElse(text, env.appKey) = text
                                /\ OrElse(text, env.githubToken) = text
  BY DEF OrElse
<1>9. AuthFallback(file.auth, env) = file.auth
  <2>1. \/ file.auth.app # None /\ file.auth.app # Empty
        \/ file.auth.app = None /\ file.auth.pat # None /\ file.auth.pat # Empty
    BY <1>6, EmptyText DEF IsValid, AuthIsValid
  <2> QED
    BY <1>2, <1>8, <2>1 DEF AuthFallback
<1> QED
  BY <1>5, <1>6, <1>7, <1>8, <1>9

\* The canonical form of a scope says what GitHub reads in it.
LEMMA CanonicalFields ==
  ASSUME NEW url \in AnyURL, ScopeIsValid(url)
  PROVE  /\ CanonicalScope(url).scheme = ToLower(TrimSpace(url.scheme))
         /\ CanonicalScope(url).scheme.word = "https"
         /\ CanonicalScope(url).host = CanonicalHost(url.host)
         /\ CanonicalScope(url).host.word = GitHubScope(url)[1]
         /\ CanonicalScope(url).port = IF url.port = "443" THEN "" ELSE url.port
         /\ CanonicalScope(url).path
              = [i \in DOMAIN url.path |-> ToLower(TrimSpace(url.path[i]))]
         /\ ~CanonicalScope(url).hasMore
<1> DEFINE scheme == ToLower(TrimSpace(url.scheme))
           host == CanonicalHost(url.host)
           port == IF url.port = "443" THEN "" ELSE url.port
           path == [i \in DOMAIN url.path |-> ToLower(TrimSpace(url.path[i]))]
<1>1. CanonicalScope(url) =
        [url EXCEPT !.scheme = scheme, !.host = host, !.port = port, !.path = path]
  BY DEF CanonicalScope
<1>2. url.scheme \in AnyText /\ url.host \in AnyText /\ ~url.hasMore
      /\ url.scheme.word = "https"
  BY DEF AnyURL, ScopeIsValid
<1>3. scheme.word = "https"
  BY <1>2, TextTypes
<1>4. host.word = GitHubScope(url)[1]
  <2>1. GitHubScope(url)[1] = IF url.host.word = "www.github.com" THEN "github.com"
                                                                   ELSE url.host.word
    BY DEF GitHubScope
  <2>2. ToLower(url.host).word = url.host.word /\ ToLower(url.host) \in AnyText
    BY <1>2, TextTypes
  <2> QED
    BY <2>1, <2>2 DEF CanonicalHost, AnyText
<1> HIDE DEF scheme, host, port, path
<1>5. /\ CanonicalScope(url).scheme = scheme /\ CanonicalScope(url).host = host
      /\ CanonicalScope(url).port = port /\ CanonicalScope(url).path = path
      /\ CanonicalScope(url).hasMore = url.hasMore
  BY <1>1 DEF AnyURL
<1> QED
  BY <1>2, <1>3, <1>4, <1>5 DEF scheme, host, port, path

\* Two spellings have the same canonical form if, and only if, GitHub takes them
\* for the same scope: nothing of a scope is lost, and nothing of the spelling kept.
LEMMA CanonicalMeansSame ==
  ASSUME NEW a \in AnyURL, NEW b \in AnyURL, ScopeIsValid(a), ScopeIsValid(b)
  PROVE  CanonicalScope(a) = CanonicalScope(b) <=> GitHubScope(a) = GitHubScope(b)
<1> DEFINE A == CanonicalScope(a)
           B == CanonicalScope(b)
<1>1. /\ A \in AnyURL /\ B \in AnyURL
      /\ a.path \in Seq(AnyText) /\ b.path \in Seq(AnyText)
      /\ a.scheme \in AnyText /\ b.scheme \in AnyText
      /\ a.host \in AnyText /\ b.host \in AnyText
      /\ ~a.host.padded /\ ~b.host.padded
      /\ \A i \in DOMAIN a.path : a.path[i] \in AnyText
      /\ \A i \in DOMAIN b.path : b.path[i] \in AnyText
  BY ScopeType DEF AnyURL
<1>2. GitHubScope(a) = GitHubScope(b) <=>
        /\ GitHubScope(a)[1] = GitHubScope(b)[1]
        /\ (IF a.port = "" THEN "443" ELSE a.port) = (IF b.port = "" THEN "443" ELSE b.port)
        /\ [i \in DOMAIN a.path |-> a.path[i].word] = [i \in DOMAIN b.path |-> b.path[i].word]
  BY DEF GitHubScope
<1>3. A.scheme = B.scheme
  <2>1. /\ A.scheme = ToLower(TrimSpace(a.scheme)) /\ A.scheme.word = "https"
        /\ B.scheme = ToLower(TrimSpace(b.scheme)) /\ B.scheme.word = "https"
    BY CanonicalFields
  <2>2. ASSUME NEW t \in AnyText
        PROVE  /\ ToLower(TrimSpace(t)) \in AnyText
               /\ ToLower(TrimSpace(t)).upper = FALSE /\ ToLower(TrimSpace(t)).padded = FALSE
    <3>1. TrimSpace(t) \in AnyText /\ TrimSpace(t).padded = FALSE
      BY TextTypes
    <3> QED
      BY <3>1, TextTypes
  <2>3. /\ A.scheme \in AnyText /\ A.scheme.upper = FALSE /\ A.scheme.padded = FALSE
        /\ B.scheme \in AnyText /\ B.scheme.upper = FALSE /\ B.scheme.padded = FALSE
    BY <1>1, <2>1, <2>2
  <2> HIDE DEF A, B
  <2> QED
    BY <2>1, <2>3, SameText
<1>4. A.host = B.host <=> GitHubScope(a)[1] = GitHubScope(b)[1]
  <2>1. /\ A.host = CanonicalHost(a.host) /\ A.host.word = GitHubScope(a)[1]
        /\ B.host = CanonicalHost(b.host) /\ B.host.word = GitHubScope(b)[1]
    BY CanonicalFields
  <2>2. ASSUME NEW t \in AnyText, ~t.padded
        PROVE  CanonicalHost(t).upper = FALSE /\ CanonicalHost(t).padded = FALSE
    <3>1. ToLower(t) \in AnyText /\ ToLower(t).upper = FALSE /\ ToLower(t).padded = t.padded
          /\ t.padded = FALSE
      BY <2>2, TextTypes DEF AnyText
    <3> DEFINE lower == ToLower(t)
               word == IF lower.word = "www.github.com" THEN "github.com" ELSE lower.word
    <3>2. CanonicalHost(t) = [lower EXCEPT !.word = word]
      BY DEF CanonicalHost
    <3> HIDE DEF word
    <3> QED
      BY <3>1, <3>2 DEF AnyText
  <2>3. A.host \in AnyText /\ B.host \in AnyText
    BY <1>1 DEF AnyURL
  <2>4. /\ A.host.upper = FALSE /\ A.host.padded = FALSE
        /\ B.host.upper = FALSE /\ B.host.padded = FALSE
    BY <1>1, <2>1, <2>2
  <2> QED
    BY <2>1, <2>3, <2>4, SameText
<1>5. A.port = B.port <=>
        (IF a.port = "" THEN "443" ELSE a.port) = (IF b.port = "" THEN "443" ELSE b.port)
  BY CanonicalFields
<1>6. A.path = B.path <=>
        [i \in DOMAIN a.path |-> a.path[i].word] = [i \in DOMAIN b.path |-> b.path[i].word]
  <2> DEFINE Lower(t) == ToLower(TrimSpace(t))
  <2>1. \A t \in AnyText : /\ Lower(t) \in AnyText /\ Lower(t).word = t.word
                           /\ Lower(t).upper = FALSE /\ Lower(t).padded = FALSE
    <3> TAKE t \in AnyText
    <3>1. /\ TrimSpace(t) \in AnyText /\ TrimSpace(t).padded = FALSE
          /\ TrimSpace(t).word = t.word
      BY TextTypes
    <3> QED
      BY <3>1, TextTypes
  <2>2. \A s, t \in AnyText : Lower(s) = Lower(t) <=> s.word = t.word
    <3> HIDE DEF Lower
    <3> TAKE s, t \in AnyText
    <3>1. /\ Lower(s) \in AnyText /\ Lower(s).upper = Lower(t).upper
          /\ Lower(t) \in AnyText /\ Lower(s).padded = Lower(t).padded
          /\ Lower(s).word = s.word /\ Lower(t).word = t.word
      BY <2>1
    <3>2. Lower(s).word = Lower(t).word => Lower(s) = Lower(t)
      BY <3>1, SameText
    <3> QED
      BY <3>1, <3>2
  <2>3. /\ A.path = [i \in DOMAIN a.path |-> Lower(a.path[i])]
        /\ B.path = [i \in DOMAIN b.path |-> Lower(b.path[i])]
    BY CanonicalFields
  <2> HIDE DEF Lower
  <2>4. A.path = B.path <=> /\ DOMAIN a.path = DOMAIN b.path
                            /\ \A i \in DOMAIN a.path : Lower(a.path[i]) = Lower(b.path[i])
    BY <2>3
  <2>5. [i \in DOMAIN a.path |-> a.path[i].word] = [i \in DOMAIN b.path |-> b.path[i].word]
          <=> /\ DOMAIN a.path = DOMAIN b.path
              /\ \A i \in DOMAIN a.path : a.path[i].word = b.path[i].word
    BY ZenonT(20)
  <2> QED
    BY <1>1, <2>2, <2>4, <2>5
<1>7. A = B <=> /\ A.scheme = B.scheme /\ A.host = B.host /\ A.port = B.port
                /\ A.path = B.path /\ A.hasMore = B.hasMore
  BY <1>1 DEF AnyURL
<1>8. A.hasMore = B.hasMore
  <2>1. ~A.hasMore /\ ~B.hasMore /\ A.hasMore \in BOOLEAN /\ B.hasMore \in BOOLEAN
    BY <1>1, CanonicalFields DEF AnyURL
  <2> QED
    BY <2>1
<1> QED
  BY <1>2, <1>3, <1>4, <1>5, <1>6, <1>7, <1>8

\* A quotient and what remains.
LEMMA Division ==
  ASSUME NEW n \in Nat, NEW b \in Nat, b > 0
  PROVE  /\ n \div b \in Nat /\ n % b \in 0 .. b - 1
         /\ n = b * (n \div b) + (n % b)
         /\ \A m \in Nat : m <= n \div b => b * m <= n
<1>1. /\ n \div b \in Nat /\ n % b \in 0 .. b - 1
  BY SMT
<1>2. n = b * (n \div b) + (n % b)
  <2>1. n - b * (n \div b) = n % b
    BY SMT
  <2>2. \A q, r \in Int : n - b * q = r => n = b * q + r
    BY SMT
  <2> QED
    BY <1>1, <2>1, <2>2
<1>3. ASSUME NEW m \in Nat, NEW q \in Nat, m <= q
      PROVE  b * m <= b * q
  <2>1. PICK d \in Nat : q = m + d
    <3>1. q - m \in Nat /\ q = m + (q - m)
      BY <1>3
    <3> QED
      BY <3>1
  <2>2. b * q = b * m + b * d /\ b * d \in Nat /\ b * m \in Nat
    BY <2>1
  <2> QED
    BY <2>2
<1>4. \A p \in Nat, r \in 0 .. b - 1 : n = p + r => p <= n
  BY SMT
<1>5. b * (n \div b) <= n
  BY <1>1, <1>2, <1>4
<1>6. \A m, q \in Nat : b * m \in Nat /\ b * q \in Nat
  BY SMT
<1> QED
  <2>1. ASSUME NEW m \in Nat, m <= n \div b
        PROVE  b * m <= n
    <3>1. \A x, y \in Nat : x <= y /\ y <= n => x <= n
      BY SMT
    <3> QED
      BY <1>1, <1>3, <1>5, <1>6, <2>1, <3>1
  <2> QED
    BY <1>1, <1>2, <2>1

\* What fits into a ByteCount is not wrapped around.
LEMMA BytesFit ==
  ASSUME NEW gib \in Nat, gib <= MaxByteCountGiB
  PROVE  gib * BytesPerGiB \in 0 .. Word - 1 /\ (gib * BytesPerGiB) % Word = gib * BytesPerGiB
<1>1. BytesPerGiB \in Nat /\ BytesPerGiB > 0 /\ Word \in Nat /\ Word > 0 /\ Word - 1 \in Nat
  BY SizesAssumption
<1>2. BytesPerGiB * gib <= Word - 1
  BY <1>1, Division DEF MaxByteCountGiB
<1>3. gib * BytesPerGiB = BytesPerGiB * gib /\ gib * BytesPerGiB \in Nat
  BY <1>1
<1>4. \A x \in Nat : x <= Word - 1 => x \in 0 .. Word - 1 /\ x % Word = x
  BY <1>1
<1> QED
  BY <1>2, <1>3, <1>4

\* The image fits on the smallest disk of whole GiB that is not smaller, and a
\* ByteCount can name that disk.
LEMMA ImageFits ==
  ASSUME NEW size \in ImageSizes
  PROVE  /\ size \in Nat /\ ImageGiB(size) \in Nat /\ ImageGiB(size) <= MaxByteCountGiB
         /\ size <= ImageGiB(size) * BytesPerGiB
         /\ ImageGiB(size) * BytesPerGiB < size + BytesPerGiB
<1> DEFINE quotient == size \div BytesPerGiB
           rest == size % BytesPerGiB
           whole == Word \div BytesPerGiB
<1>1. BytesPerGiB \in Nat /\ BytesPerGiB > 0 /\ Word \in Nat /\ BytesPerGiB <= Word
  BY SizesAssumption
<1>2. whole \in Nat /\ BytesPerGiB * whole <= Word
  BY <1>1, Division
<1>3. size \in Nat /\ size <= (whole - 1) * BytesPerGiB
  BY <1>1, <1>2, SizesAssumption
<1>4. /\ quotient \in Nat /\ rest \in 0 .. BytesPerGiB - 1
      /\ size = BytesPerGiB * quotient + rest
  BY <1>1, <1>3, Division
<1>5. ImageGiB(size) = IF rest = 0 THEN quotient ELSE quotient + 1
  BY DEF ImageGiB
<1> HIDE DEF quotient, rest, whole
<1>6. /\ ImageGiB(size) \in Nat
      /\ size <= ImageGiB(size) * BytesPerGiB
      /\ ImageGiB(size) * BytesPerGiB < size + BytesPerGiB
  BY <1>1, <1>3, <1>4, <1>5
<1>7. ImageGiB(size) <= whole - 1
  <2>1. CASE rest = 0
    <3>1. BytesPerGiB * quotient <= (whole - 1) * BytesPerGiB
      BY <1>1, <1>2, <1>3, <1>4, <2>1
    <3>2. \A m, n \in Int : BytesPerGiB * m <= n * BytesPerGiB => m <= n
      BY <1>1
    <3> QED
      BY <1>2, <1>4, <1>5, <2>1, <3>1, <3>2
  <2>2. CASE rest # 0
    <3>1. BytesPerGiB * quotient < (whole - 1) * BytesPerGiB
      BY <1>1, <1>2, <1>3, <1>4, <2>2
    <3>2. \A m, n \in Int : BytesPerGiB * m < n * BytesPerGiB => m < n
      BY <1>1
    <3> QED
      BY <1>2, <1>4, <1>5, <2>2, <3>1, <3>2
  <2> QED
    BY <2>1, <2>2
<1>8. whole - 1 <= MaxByteCountGiB
  <2>1. /\ MaxByteCountGiB \in Nat /\ Word - 1 \in Nat
        /\ (Word - 1) % BytesPerGiB \in 0 .. BytesPerGiB - 1
        /\ Word - 1 = BytesPerGiB * MaxByteCountGiB + ((Word - 1) % BytesPerGiB)
    BY <1>1, Division DEF MaxByteCountGiB
  <2>2. BytesPerGiB * whole < BytesPerGiB * (MaxByteCountGiB + 2)
    BY <1>1, <1>2, <2>1
  <2>3. \A m, n \in Int : BytesPerGiB * m < BytesPerGiB * n => m < n
    BY <1>1
  <2> QED
    BY <1>2, <2>1, <2>2, <2>3
<1>9. MaxByteCountGiB \in Nat
  BY <1>1, Division DEF MaxByteCountGiB
<1> QED
  BY <1>2, <1>3, <1>6, <1>7, <1>8, <1>9

\* What was valid when it was loaded is still valid when scaler.New looks at it.
LEMMA AcceptedTwice ==
  ASSUME NEW c \in AnyFile, IsValid(c)
  PROVE  InstanceIsValid(Normalized(c)) /\ RunnersAreValid(Normalized(c)) /\ Normalized(c) # None
<1>1. TrimSpace(TrimSpace(c.project)) = TrimSpace(c.project)
  BY TextTypes DEF AnyFile
<1>2. Normalized(c) # None
  BY NormalizedType, StartsAssumption
<1> QED
  BY <1>1, <1>2, NormalizedType DEF IsValid, InstanceIsValid, RunnersAreValid, Blank

\* No label is configured twice.
LEMMA LabelsAreDistinct ==
  ASSUME NEW c \in AnyFile, IsValid(c), config = Normalized(c)
  PROVE  RunnerLabels \in Seq(AnyText) /\ IsInjective(RunnerLabels)
<1>1. /\ config \in AnyFile /\ config.name \in AnyText /\ config.labels \in Seq(AnyText)
      /\ config.labels = [i \in DOMAIN c.labels |-> TrimSpace(c.labels[i])]
  BY NormalizedType DEF AnyFile
<1>2. IsInjective(<<config.name>>)
  BY DEF IsInjective
<1>3. IsInjective(config.labels)
  <2>1. IsInjective([i \in DOMAIN c.labels |-> ToLower(TrimSpace(c.labels[i]))])
    BY DEF IsValid, LabelsAreValid
  <2>2. \A i, j \in DOMAIN c.labels :
          TrimSpace(c.labels[i]) = TrimSpace(c.labels[j]) => i = j
    BY <2>1, ZenonT(20) DEF IsInjective
  <2> QED
    BY <1>1, <2>2 DEF IsInjective
<1> QED
  BY <1>1, <1>2, <1>3 DEF RunnerLabels

-----------------------------------------------------------------------------
(* The invariant.                                                          *)

\* The configuration that a process goes by is that of its file and environment,
\* and once it passed Load nothing in it is refused any more.
Filled == ApplyEnvFallbacks(start.file, start.env)

StartHolds ==
  /\ pc \in {"stopped", "refused", "loaded", "ensured", "running", "requested"}
  /\ started \in Nat
  /\ pc = "stopped" <=> start = None
  /\ pc # "stopped" => start \in [file : AnyFile, env : AnyEnv]
  /\ pc \in {"stopped", "refused"} => config = None
  /\ pc = "refused" => ~IsValid(Filled)
  /\ pc \notin {"stopped", "refused"} => IsValid(Filled) /\ config = Normalized(Filled)

NumbersHold ==
  /\ limits = IF pc \in {"running", "requested"} THEN [min |-> config.min, max |-> config.max]
                                                 ELSE None
  /\ pc # "requested" => request = None
  /\ pc = "requested" =>
       /\ request.cpus = config.cpus
       /\ request.memory \in 0 .. Word - 1 /\ request.memory = config.memory * BytesPerGiB
       /\ request.disk \in 0 .. Word - 1
       /\ request.disk >= request.image /\ request.disk >= config.disk * BytesPerGiB
       /\ \/ request.disk < request.image + BytesPerGiB
          \/ request.disk = config.disk * BytesPerGiB

LabelsHold == labels # None => labels \in Seq(AnyText) /\ IsInjective(labels)

NamespacesHold ==
  \A n \in namespaces :
    n.written \in AnyURL /\ ScopeIsValid(n.written) /\ n.used = CanonicalScope(n.written)

IInv == StartHolds /\ NumbersHold /\ LabelsHold /\ NamespacesHold

\* Nothing is configured before the first start.
LEMMA InitHolds == Init => IInv
BY ExistingAssumption DEF Init, IInv, StartHolds, NumbersHold, LabelsHold, NamespacesHold

\* A process that was started knows its file and its environment.
LEMMA FilledIsFile ==
  ASSUME IInv, pc # "stopped"
  PROVE  Filled \in AnyFile /\ start.file \in AnyFile /\ start.env \in AnyEnv
<1>1. start \in [file : AnyFile, env : AnyEnv]
  BY DEF IInv, StartHolds
<1> QED
  BY <1>1, FilledType DEF Filled

\* LoadFile: what Load returns is refused, or is valid.
LEMMA LoadFileHolds == IInv /\ LoadFile => IInv'
<1> SUFFICES ASSUME IInv, LoadFile
             PROVE  IInv'
  OBVIOUS
<1>1. /\ pc = "stopped" /\ started \in Nat /\ started' = started + 1 /\ started < Len(Starts)
      /\ limits = None /\ request = None
  BY DEF IInv, StartHolds, NumbersHold, LoadFile
<1>2. start' \in [file : AnyFile, env : AnyEnv] /\ start' # None
  <2>1. Starts \in Seq(SUBSET [file : AnyFile, env : AnyEnv])
    BY StartsAssumption
  <2>2. started + 1 \in 1 .. Len(Starts)
    BY <1>1, <2>1
  <2>3. Starts[started + 1] \subseteq [file : AnyFile, env : AnyEnv]
    BY <2>1, <2>2
  <2>4. start' \in Starts[started']
    BY DEF LoadFile
  <2> QED
    BY <1>1, <2>3, <2>4, StartsAssumption
<1>3. Filled' = ApplyEnvFallbacks(start'.file, start'.env) /\ Filled' \in AnyFile
  BY <1>2, FilledType DEF Filled
<1>4. /\ config' = IF IsValid(Filled') THEN Normalized(Filled') ELSE None
      /\ pc' = IF config' = None THEN "refused" ELSE "loaded"
  BY <1>3 DEF LoadFile, Loaded
<1>5. IsValid(Filled') => Normalized(Filled') # None
  BY <1>3, AcceptedTwice
<1>6. StartHolds'
  BY <1>1, <1>2, <1>4, <1>5 DEF StartHolds
<1>7. NumbersHold'
  BY <1>1, <1>4 DEF NumbersHold, LoadFile
<1>8. LabelsHold' /\ NamespacesHold'
  BY DEF IInv, LabelsHold, NamespacesHold, LoadFile
<1> QED
  BY <1>6, <1>7, <1>8 DEF IInv

\* EnsureScaleSet: the labels are those that were there, or those configured.
LEMMA EnsureScaleSetHolds == IInv /\ EnsureScaleSet => IInv'
<1> SUFFICES ASSUME IInv, EnsureScaleSet
             PROVE  IInv'
  OBVIOUS
<1>1. pc = "loaded" /\ pc' = "ensured"
  BY DEF EnsureScaleSet
<1>2. Filled \in AnyFile /\ IsValid(Filled) /\ config = Normalized(Filled)
  BY <1>1, FilledIsFile DEF IInv, StartHolds
<1>3. LabelsHold'
  BY <1>2, LabelsAreDistinct DEF IInv, LabelsHold, EnsureScaleSet
<1>4. StartHolds'
  BY <1>1 DEF IInv, StartHolds, EnsureScaleSet, Filled
<1>5. NumbersHold'
  BY <1>1 DEF IInv, NumbersHold, EnsureScaleSet
<1>6. NamespacesHold'
  BY DEF IInv, NamespacesHold, EnsureScaleSet
<1> QED
  BY <1>3, <1>4, <1>5, <1>6 DEF IInv

\* NewScaler: an int holds what an int32 does, so that nothing is refused.
LEMMA NewScalerHolds == IInv /\ NewScaler => IInv'
<1> SUFFICES ASSUME IInv, NewScaler
             PROVE  IInv'
  OBVIOUS
<1>1. pc = "ensured" /\ request = None
  BY DEF IInv, NumbersHold, NewScaler
<1>2. Filled \in AnyFile /\ IsValid(Filled) /\ config = Normalized(Filled)
  BY <1>1, FilledIsFile DEF IInv, StartHolds
<1>3. /\ config \in AnyFile /\ InstanceIsValid(config)
      /\ config.min <= config.max /\ config.max <= MaxInt32
  BY <1>2, AcceptedTwice, NormalizedType DEF RunnersAreValid
<1>4. config.min \in 0 .. Word - 1 /\ config.max \in 0 .. Word - 1
  BY <1>3 DEF AnyFile
<1>5. ToInt(config.min) = config.min /\ ToInt(config.max) = config.max
  BY <1>3, <1>4, SizesAssumption DEF ToInt
<1>6. limits' = [min |-> config.min, max |-> config.max] /\ pc' = "running"
  BY <1>3, <1>4, <1>5 DEF NewScaler, ScalerAccepts
<1>7. StartHolds'
  BY <1>1, <1>6 DEF IInv, StartHolds, NewScaler, Filled
<1>8. NumbersHold'
  BY <1>1, <1>6 DEF NumbersHold, NewScaler
<1>9. NamespacesHold'
  <2>1. config.url = CanonicalScope(start.file.url)
    BY <1>1, <1>2, FilledIsFile, NormalizedType DEF Filled, ApplyEnvFallbacks, AnyFile
  <2>2. start.file.url \in AnyURL /\ ScopeIsValid(start.file.url)
    BY <1>1, <1>2, FilledIsFile DEF Filled, ApplyEnvFallbacks, AnyFile, IsValid
  <2> QED
    BY <2>1, <2>2 DEF IInv, NamespacesHold, NewScaler
<1>10. LabelsHold'
  BY DEF IInv, LabelsHold, NewScaler
<1> QED
  BY <1>7, <1>8, <1>9, <1>10 DEF IInv

\* CreateInstance: every number of the request is the number meant.
LEMMA CreateInstanceHolds == IInv /\ CreateInstance => IInv'
<1> SUFFICES ASSUME IInv, CreateInstance
             PROVE  IInv'
  OBVIOUS
<1>1. pc = "running" /\ pc' = "requested"
  BY DEF CreateInstance
<1>2. Filled \in AnyFile /\ IsValid(Filled) /\ config = Normalized(Filled)
  BY <1>1, FilledIsFile DEF IInv, StartHolds
<1>3. /\ config \in AnyFile /\ config.disk <= MaxByteCountGiB
      /\ config.cpus \in 1 .. MaxUint16 /\ config.memory \in 1 .. MaxByteCountGiB
  BY <1>2, AcceptedTwice, NormalizedType DEF InstanceIsValid
<1>4. config.disk \in Nat
  <2>1. config.disk \in 0 .. Word - 1 /\ Word \in Nat
    BY <1>3, SizesAssumption DEF AnyFile
  <2> QED
    BY <2>1
<1>5. PICK size \in ImageSizes :
        request' = [image |-> size,
                    disk |-> (BootDiskGiB(size) * BytesPerGiB) % Word,
                    memory |-> (config.memory * BytesPerGiB) % Word,
                    cpus |-> config.cpus % (MaxUint16 + 1)]
  BY DEF CreateInstance
<1>6. request'.cpus = config.cpus
  <2>1. config.cpus % (MaxUint16 + 1) = config.cpus
    BY <1>3, SizesAssumption
  <2> QED
    BY <1>5, <2>1
<1>7. request'.memory \in 0 .. Word - 1 /\ request'.memory = config.memory * BytesPerGiB
  <2>1. config.memory \in Nat /\ config.memory <= MaxByteCountGiB
    <3>1. MaxByteCountGiB \in Int
      BY Division, SizesAssumption DEF MaxByteCountGiB
    <3> QED
      BY <1>3, <3>1
  <2> QED
    BY <1>5, <2>1, BytesFit
<1>8. /\ request'.disk \in 0 .. Word - 1 /\ request'.image = size
      /\ request'.disk = BootDiskGiB(size) * BytesPerGiB
  <2>1. BootDiskGiB(size) \in Nat /\ BootDiskGiB(size) <= MaxByteCountGiB
    BY <1>3, <1>4, ImageFits DEF BootDiskGiB
  <2> QED
    BY <1>5, <2>1, BytesFit
<1>9. /\ request'.disk >= size /\ request'.disk >= config.disk * BytesPerGiB
      /\ \/ request'.disk < size + BytesPerGiB
         \/ request'.disk = config.disk * BytesPerGiB
  <2> DEFINE gib == ImageGiB(size)
  <2>1. /\ gib \in Nat /\ size \in Nat /\ BytesPerGiB \in Nat
        /\ size <= gib * BytesPerGiB /\ gib * BytesPerGiB < size + BytesPerGiB
    BY ImageFits, SizesAssumption
  <2>2. BootDiskGiB(size) = IF gib > config.disk THEN gib ELSE config.disk
    BY DEF BootDiskGiB
  <2> HIDE DEF gib
  <2>3. ASSUME NEW m \in Nat, NEW n \in Nat, m <= n
        PROVE  m * BytesPerGiB <= n * BytesPerGiB
    BY <2>1, <2>3
  <2>4. CASE gib > config.disk
    <3>1. config.disk * BytesPerGiB <= gib * BytesPerGiB
      BY <1>4, <2>1, <2>3, <2>4
    <3> QED
      BY <1>8, <2>1, <2>2, <2>4, <3>1
  <2>5. CASE ~(gib > config.disk)
    <3>1. gib * BytesPerGiB <= config.disk * BytesPerGiB
      BY <1>4, <2>1, <2>3, <2>5
    <3>2. gib * BytesPerGiB \in Nat /\ config.disk * BytesPerGiB \in Nat
      BY <1>4, <2>1
    <3>3. \A m, n \in Nat : size <= m /\ m <= n => n >= size
      BY <2>1
    <3>4. config.disk * BytesPerGiB >= size
      BY <2>1, <3>1, <3>2, <3>3
    <3> QED
      BY <1>8, <2>2, <2>5, <3>2, <3>4
  <2> QED
    BY <2>4, <2>5
<1>10. StartHolds'
  BY <1>1 DEF IInv, StartHolds, CreateInstance, Filled
<1>11. NumbersHold'
  <2>1. config' = config /\ limits' = limits
    BY DEF CreateInstance
  <2>2. limits' = [min |-> config'.min, max |-> config'.max]
    BY <1>1, <2>1 DEF IInv, NumbersHold
  <2> QED
    BY <1>1, <1>6, <1>7, <1>8, <1>9, <2>1, <2>2 DEF NumbersHold
<1>12. LabelsHold' /\ NamespacesHold'
  BY DEF IInv, LabelsHold, NamespacesHold, CreateInstance
<1> QED
  BY <1>10, <1>11, <1>12 DEF IInv

\* Every step keeps the invariant.
LEMMA Invariance == IInv /\ [Next]_vars => IInv'
<1> SUFFICES ASSUME IInv, [Next]_vars
             PROVE  IInv'
  OBVIOUS
<1>1. CASE LoadFile
  BY <1>1, LoadFileHolds
<1>2. CASE EnsureScaleSet
  BY <1>2, EnsureScaleSetHolds
<1>3. CASE NewScaler
  BY <1>3, NewScalerHolds
<1>4. CASE CreateInstance
  BY <1>4, CreateInstanceHolds
<1>5. CASE Stop
  BY <1>5 DEF IInv, StartHolds, NumbersHold, LabelsHold, NamespacesHold, Stop
<1>6. CASE UNCHANGED vars
  BY <1>6 DEF IInv, StartHolds, NumbersHold, LabelsHold, NamespacesHold, Filled, vars
<1> QED
  BY <1>1, <1>2, <1>3, <1>4, <1>5, <1>6 DEF Next

\* The invariant holds, whatever the processes are started with.
THEOREM InvariantHolds == Spec => []IInv
<1>1. Init => IInv
  BY InitHolds
<1>2. IInv /\ [Next]_vars => IInv'
  BY Invariance
<1> QED
  BY <1>1, <1>2, PTL DEF Spec

-----------------------------------------------------------------------------
(* The properties.                                                         *)

\* The variables of the process are of their types.
THEOREM TypeSafe == Spec => []TypeOK
<1>1. IInv => TypeOK
  <2> SUFFICES ASSUME IInv
               PROVE  TypeOK
    OBVIOUS
  <2>1. pc \notin {"stopped", "refused"} => config # None /\ config \in AnyFile
    <3>1. ASSUME pc \notin {"stopped", "refused"}
          PROVE  Filled \in AnyFile /\ IsValid(Filled) /\ config = Normalized(Filled)
      BY <3>1, FilledIsFile DEF IInv, StartHolds
    <3> QED
      BY <3>1, AcceptedTwice, NormalizedType
  <2>2. limits # None => limits.min \in Int /\ limits.max \in Int
    <3>1. ASSUME limits # None
          PROVE  pc \in {"running", "requested"} /\ limits.min = config.min /\ limits.max = config.max
      BY <3>1 DEF IInv, NumbersHold
    <3>2. 0 .. Word - 1 \subseteq Int
      BY SizesAssumption
    <3> QED
      BY <2>1, <3>1, <3>2 DEF AnyFile
  <2>3. request # None => request.disk \in 0 .. Word - 1 /\ request.memory \in 0 .. Word - 1
    BY DEF IInv, NumbersHold
  <2> QED
    BY <2>1, <2>2, <2>3 DEF TypeOK, IInv, StartHolds, NamespacesHold
<1> QED
  BY <1>1, InvariantHolds, PTL

\* A configuration that was accepted is carried out to the letter: nothing in it
\* is refused later, no number is wrapped around, and the boot disk is as small
\* as it can be.
THEOREM AcceptedIsKept == Spec => []AcceptedIsCarriedOut
<1>1. IInv => AcceptedIsCarriedOut
  BY DEF IInv, StartHolds, NumbersHold, AcceptedIsCarriedOut
<1> QED
  BY <1>1, InvariantHolds, PTL

\* The environment changes nothing of a file that is complete.
THEOREM FilesComeFirst == Spec => []EnvironmentOnlyFillsGaps
<1>1. IInv => EnvironmentOnlyFillsGaps
  <2> SUFFICES ASSUME IInv, pc # "stopped", Loaded(start.file, NoEnv) # None
               PROVE  pc # "refused" /\ config = Loaded(start.file, NoEnv)
    BY DEF EnvironmentOnlyFillsGaps
  <2> DEFINE alone == ApplyEnvFallbacks(start.file, NoEnv)
  <2>1. IsValid(alone) /\ Loaded(start.file, NoEnv) = Normalized(alone)
    BY DEF Loaded
  <2>2. Filled = alone
    BY <2>1, FilledIsFile, OnlyGapsAreFilled DEF Filled
  <2> QED
    BY <2>1, <2>2 DEF IInv, StartHolds
<1> QED
  BY <1>1, InvariantHolds, PTL

\* However often a scale set is restarted, and however its scope is spelled, it
\* uses one namespace, and it shares it with no other scope.
THEOREM NamespacesAreKept == Spec => []OneNamespacePerScope
<1>1. IInv => OneNamespacePerScope
  BY CanonicalMeansSame DEF IInv, NamespacesHold, OneNamespacePerScope
<1> QED
  BY <1>1, InvariantHolds, PTL

\* Two lists that name nothing twice are the same bag if they are the same set.
LEMMA BagsOfDistinct ==
  ASSUME NEW s, NEW t
  PROVE  /\ ToBag(s) = ToBag(t) => ToSet(s) = ToSet(t)
         /\ IsInjective(s) /\ IsInjective(t) /\ ToSet(s) = ToSet(t) => ToBag(s) = ToBag(t)
<1>1. ASSUME NEW l
      PROVE  DOMAIN ToBag(l) = ToSet(l)
  BY DEF ToBag, ToSet, Range
<1>2. ASSUME NEW l, IsInjective(l)
      PROVE  ToBag(l) = [x \in ToSet(l) |-> 1]
  <2>1. ASSUME NEW x \in ToSet(l)
        PROVE  Cardinality({i \in DOMAIN l : l[i] = x}) = 1
    <3>1. PICK i \in DOMAIN l : l[i] = x
      BY DEF ToSet
    <3>2. {j \in DOMAIN l : l[j] = x} = {i}
      BY <1>2, <3>1 DEF IsInjective
    <3> QED
      BY <3>2, FS_Singleton
  <2>2. ToBag(l) = [x \in ToSet(l) |-> Cardinality({i \in DOMAIN l : l[i] = x})]
    BY DEF ToBag, ToSet, Range
  <2> QED
    BY <2>1, <2>2
<1>3. ToBag(s) = ToBag(t) => ToSet(s) = ToSet(t)
  BY <1>1
<1>4. IsInjective(s) /\ IsInjective(t) /\ ToSet(s) = ToSet(t) => ToBag(s) = ToBag(t)
  BY <1>2
<1> QED
  BY <1>3, <1>4

\* A start sets the labels that are configured, unless they are there already.
THEOREM LabelsAreSet == Spec => LabelsFollowConfiguration
<1> DEFINE Followed ==
      pc = "loaded" /\ pc' = "ensured" =>
        /\ ToSet(labels') = ToSet(RunnerLabels)
        /\ labels # None /\ ToSet(labels) = ToSet(RunnerLabels) => labels' = labels
<1>1. IInv /\ [Next]_vars => [Followed]_vars
  <2> SUFFICES ASSUME IInv, [Next]_vars, pc = "loaded", pc' = "ensured"
               PROVE  /\ ToSet(labels') = ToSet(RunnerLabels)
                      /\ labels # None /\ ToSet(labels) = ToSet(RunnerLabels) => labels' = labels
    OBVIOUS
  <2>1. EnsureScaleSet
    BY DEF Next, LoadFile, NewScaler, CreateInstance, Stop, vars
  <2>2. Filled \in AnyFile /\ IsValid(Filled) /\ config = Normalized(Filled)
    BY FilledIsFile DEF IInv, StartHolds
  <2>3. IsInjective(RunnerLabels)
    BY <2>2, LabelsAreDistinct
  <2>4. labels # None => IsInjective(labels)
    BY DEF IInv, LabelsHold
  <2>5. labels' = IF labels # None /\ ToBag(RunnerLabels) = ToBag(labels) THEN labels
                                                                          ELSE RunnerLabels
    BY <2>1 DEF EnsureScaleSet, SameLabelNames
  <2> QED
    BY <2>3, <2>4, <2>5, BagsOfDistinct
<1>2. Spec => [][Followed]_vars
  BY <1>1, InvariantHolds, PTL DEF Spec
<1> QED
  BY <1>2 DEF LabelsFollowConfiguration

=============================================================================
