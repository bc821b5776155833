---------------------------- MODULE Configuration ----------------------------
(***************************************************************************)
(* What a process makes of its configuration (internal/config, scaleset.go,*)
(* internal/scaler/config.go): it is loaded from a file and the            *)
(* environment, names the scale set and its Oxide resources, sets the      *)
(* labels on GitHub, and becomes the numbers of an instance request.  The  *)
(* process is started again and again with files that may differ.          *)
(*                                                                         *)
(* A text is a word with two accidents of spelling: capital letters, and   *)
(* spaces (or, in a path, slashes) around it.                              *)
(***************************************************************************)
EXTENDS Integers, SequencesExt

CONSTANTS
  Starts,         \* Starts[i]: the [file, env] that the i-th process may be started
                  \* with; their number bounds how often one is started
  Existing,       \* the labels a scale set may have before the first start
  Words,          \* what a text may say, apart from its spelling
  None,           \* what a file does not mention; no scale set
  ImageSizes,     \* sizes of the image, in bytes
  BytesPerGiB,    \* bytesPerGiB, and the three widths that matter, scaled down:
  Word,           \* 2^64
  MaxInt32,       \* math.MaxInt32
  MaxUint16       \* math.MaxUint16

\* An image of the last GiB that a ByteCount can name does not exist.
ASSUME SizesAssumption ==
  /\ BytesPerGiB \in Nat \ {0} /\ Word \in Nat \ {0} /\ BytesPerGiB <= Word
  /\ ImageSizes \subseteq 0 .. ((Word \div BytesPerGiB) - 1) * BytesPerGiB
  /\ MaxInt32 \in Nat /\ MaxUint16 \in Nat /\ MaxInt32 < Word \div 2 /\ MaxUint16 < Word

AnyText == [word : Words, upper : BOOLEAN, padded : BOOLEAN]

\* What url.Parse returns: no host has spaces around it.
AnyURL ==
  [scheme : AnyText, host : {t \in AnyText : ~t.padded}, port : Words,
   path : Seq(AnyText), hasMore : BOOLEAN]

\* What the YAML decoder returns, with uint and uint64 numbers.
AnyFile ==
  LET number == 0 .. Word - 1
  IN  [url : AnyURL, auth : [app : AnyText \union {None}, pat : AnyText \union {None}],
       host : AnyText, token : AnyText, name : AnyText, labels : Seq(AnyText),
       project : AnyText, min : number, max : number, disk : number, cpus : number,
       memory : number]

AnyEnv == [host : AnyText, token : AnyText, appKey : AnyText, githubToken : AnyText]

\* Nothing, and what CanonicalHost puts in the place of another word.
ASSUME WordsAssumption == {"", "github.com"} \subseteq Words

ASSUME StartsAssumption ==
  /\ None \notin AnyText /\ None \notin AnyFile /\ None \notin Seq(AnyText)
  /\ None \notin [file : AnyFile, env : AnyEnv]
  /\ Starts \in Seq(SUBSET [file : AnyFile, env : AnyEnv])

\* GitHub keeps no label twice.
ASSUME ExistingAssumption ==
  \A names \in Existing \ {None} : names \in Seq(AnyText) /\ IsInjective(names)

VARIABLES
  pc,             \* how far the process got
  start,          \* the file and the environment it was started with
  config,         \* the configuration in its memory
  limits,         \* Scaler.minRunners and maxRunners
  request,        \* what InstanceCreate was asked for
  labels,         \* GitHub: the labels of the scale set
  namespaces,     \* which namespace was used for which GitHub scope so far
  started         \* counts starts against Len(Starts)

vars == <<pc, start, config, limits, request, labels, namespaces, started>>

Empty == [word |-> "", upper |-> FALSE, padded |-> FALSE]
TrimSpace(text) == [text EXCEPT !.padded = FALSE]
ToLower(text) == [text EXCEPT !.upper = FALSE]
Blank(text) == TrimSpace(text) = Empty

-----------------------------------------------------------------------------
(* applyEnvFallbacks *)

OrElse(text, fallback) == IF text = Empty THEN fallback ELSE text

\* Seeded fault: the token of the environment is taken whatever the file says.
Faulty_AuthFallback(auth, env) ==
  [app |-> IF auth.app # None THEN OrElse(auth.app, env.appKey) ELSE None,
   pat |-> IF auth.pat # None THEN OrElse(auth.pat, env.githubToken)
           ELSE IF env.githubToken # Empty THEN env.githubToken ELSE None]

\* The environment chooses the kind of authentication only if the file does not.
AuthFallback(auth, env) ==
  IF auth.app # None THEN [auth EXCEPT !.app = OrElse(@, env.appKey)]
  ELSE IF auth.pat # None THEN [auth EXCEPT !.pat = OrElse(@, env.githubToken)]
  ELSE IF env.githubToken # Empty THEN [auth EXCEPT !.pat = env.githubToken] ELSE auth

ApplyEnvFallbacks(file, env) ==
  [file EXCEPT !.host = OrElse(@, env.host),
               !.token = OrElse(@, env.token),
               !.auth = AuthFallback(@, env)]

-----------------------------------------------------------------------------
(* canonicalGitHubScope.  A URL has a scheme, a host, a port, a path, and  *)
(* perhaps something else: user information, a query or a fragment.        *)

ScopeIsValid(url) ==
  /\ url.scheme.word = "https"
  /\ url.host # Empty
  /\ ~url.hasMore
  /\ Len(url.path) \in 1 .. 2

CanonicalHost(host) ==
  [ToLower(host) EXCEPT !.word = IF @ = "www.github.com" THEN "github.com" ELSE @]

\* Seeded fault: the letters of the path are left alone.
Faulty_CanonicalScope(url) ==
  [url EXCEPT !.scheme = ToLower(TrimSpace(@)), !.host = CanonicalHost(@),
              !.port = IF @ = "443" THEN "" ELSE @,
              !.path = [i \in DOMAIN @ |-> TrimSpace(@[i])]]

CanonicalScope(url) ==
  [url EXCEPT !.scheme = ToLower(TrimSpace(@)), !.host = CanonicalHost(@),
              !.port = IF @ = "443" THEN "" ELSE @,
              !.path = [i \in DOMAIN @ |-> ToLower(TrimSpace(@[i]))]]

-----------------------------------------------------------------------------
(* Validate, of the configuration and of its parts. *)

AuthIsValid(auth) ==
  \/ auth.app # None /\ auth.pat = None /\ ~Blank(auth.app)
  \/ auth.pat # None /\ auth.app = None /\ ~Blank(auth.pat)

LabelsAreValid(names) ==
  /\ \A i \in DOMAIN names : ~Blank(names[i])
  /\ IsInjective([i \in DOMAIN names |-> ToLower(TrimSpace(names[i]))])

RunnersAreValid(c) == c.min <= c.max /\ c.max <= MaxInt32

MaxByteCountGiB == (Word - 1) \div BytesPerGiB

InstanceIsValid(c) ==
  /\ ~Blank(c.project)
  /\ c.disk <= MaxByteCountGiB
  /\ c.cpus \in 1 .. MaxUint16
  /\ c.memory \in 1 .. MaxByteCountGiB

IsValid(c) ==
  /\ ScopeIsValid(c.url)
  /\ AuthIsValid(c.auth)
  /\ ~Blank(c.host) /\ ~Blank(c.token)
  /\ ~Blank(c.name) /\ LabelsAreValid(c.labels)
  /\ RunnersAreValid(c)
  /\ InstanceIsValid(c)

Normalized(c) ==
  [c EXCEPT !.url = CanonicalScope(@),
            !.auth.pat = IF @ = None THEN None ELSE TrimSpace(@),
            !.host = TrimSpace(@), !.token = TrimSpace(@),
            !.name = TrimSpace(@), !.project = TrimSpace(@),
            !.labels = [i \in DOMAIN @ |-> TrimSpace(@[i])]]

\* Load, which either refuses (None) or returns the configuration.
Loaded(file, env) ==
  LET filled == ApplyEnvFallbacks(file, env)
  IN  IF IsValid(filled) THEN Normalized(filled) ELSE None

-----------------------------------------------------------------------------
(* The process. *)

\* Seeded fault: the error is only logged.
Faulty_LoadFile ==
  /\ pc = "stopped"
  /\ started < Len(Starts)
  /\ started' = started + 1
  /\ start' \in Starts[started']
  /\ config' = Loaded(start'.file, start'.env)
  /\ pc' = "loaded"
  /\ UNCHANGED <<limits, request, labels, namespaces>>

LoadFile ==
  /\ pc = "stopped"
  /\ started < Len(Starts)
  /\ started' = started + 1
  /\ start' \in Starts[started']
  /\ LET loaded == Loaded(start'.file, start'.env)
     IN  /\ pc' = IF loaded = None THEN "refused" ELSE "loaded"
         /\ config' = loaded
  /\ UNCHANGED <<limits, request, labels, namespaces>>

RunnerLabels == IF config.labels = <<>> THEN <<config.name>> ELSE config.labels

\* Seeded fault: the labels are compared in the order they come in.
Faulty_SameLabelNames(a, b) == a = b

\* Both lists are sorted and then compared.
SameLabelNames(a, b) == ToBag(a) = ToBag(b)

EnsureScaleSet ==
  /\ pc = "loaded"
  /\ labels' = IF labels # None /\ SameLabelNames(RunnerLabels, labels)
               THEN labels ELSE RunnerLabels
  /\ pc' = "ensured"
  /\ UNCHANGED <<start, config, limits, request, namespaces, started>>

\* The conversion int(u), which wraps around.
ToInt(u) == IF u < Word \div 2 THEN u ELSE u - Word

\* scaler.New validates what it is given once more.
ScalerAccepts(min, max) == 0 <= min /\ min <= max /\ max <= MaxInt32 /\ InstanceIsValid(config)

NewScaler ==
  /\ pc = "ensured"
  /\ limits' = [min |-> ToInt(config.min), max |-> ToInt(config.max)]
  /\ pc' = IF ScalerAccepts(limits'.min, limits'.max) THEN "running" ELSE "failed"
  /\ namespaces' = namespaces \union {[written |-> start.file.url, used |-> config.url]}
  /\ UNCHANGED <<start, config, request, labels, started>>

\* Seeded fault: the image is taken to fill whole GiB.
Faulty_ImageGiB(size) == size \div BytesPerGiB

\* The size of the image, rounded up.
ImageGiB(size) ==
  IF size % BytesPerGiB = 0 THEN size \div BytesPerGiB ELSE (size \div BytesPerGiB) + 1

BootDiskGiB(size) == IF ImageGiB(size) > config.disk THEN ImageGiB(size) ELSE config.disk

CreateInstance ==
  /\ pc = "running"
  /\ \E size \in ImageSizes :
       request' = [image |-> size,
                   disk |-> (BootDiskGiB(size) * BytesPerGiB) % Word,
                   memory |-> (config.memory * BytesPerGiB) % Word,
                   cpus |-> config.cpus % (MaxUint16 + 1)]
  /\ pc' = "requested"
  /\ UNCHANGED <<start, config, limits, labels, namespaces, started>>

\* The process ends, one way or another.
Stop ==
  /\ pc # "stopped"
  /\ pc' = "stopped"
  /\ start' = None /\ config' = None /\ limits' = None /\ request' = None
  /\ UNCHANGED <<labels, namespaces, started>>

Init ==
  /\ pc = "stopped"
  /\ start = None /\ config = None /\ limits = None /\ request = None
  /\ labels \in Existing
  /\ namespaces = {}
  /\ started = 0

Next == LoadFile \/ EnsureScaleSet \/ NewScaler \/ CreateInstance \/ Stop

Spec == Init /\ [][Next]_vars

-----------------------------------------------------------------------------
(* Safety *)

TypeOK ==
  /\ pc \in {"stopped", "refused", "loaded", "ensured", "failed", "running", "requested"}
  /\ pc = "stopped" <=> start = None
  /\ pc \in {"stopped", "refused"} <=> config = None
  /\ limits # None => limits.min \in Int /\ limits.max \in Int
  /\ request # None => request.disk \in 0 .. Word - 1 /\ request.memory \in 0 .. Word - 1
  /\ \A n \in namespaces : n.used = CanonicalScope(n.written)
  /\ started \in Nat

NoEnv == [host |-> Empty, token |-> Empty, appKey |-> Empty, githubToken |-> Empty]

\* "YAML values take precedence" (doc of the secrets in config.go): if a file
\* is complete, nothing in the environment can change what is loaded from it,
\* or have it refused.
EnvironmentOnlyFillsGaps ==
  pc # "stopped" =>
    LET complete == Loaded(start.file, NoEnv)
    IN  complete # None => pc # "refused" /\ config = complete

\* What GitHub takes a URL for: hosts and paths have no case, www.github.com is
\* github.com, and 443 is the port of https.
GitHubScope(url) ==
  <<IF url.host.word = "www.github.com" THEN "github.com" ELSE url.host.word,
    IF url.port = "" THEN "443" ELSE url.port,
    [i \in DOMAIN url.path |-> url.path[i].word]>>

\* The namespace marks the resources of a scale set across restarts: however a
\* scope is spelled it is the same, so that nothing is orphaned, and no two
\* scopes share one, so that nobody removes the runners of somebody else.
OneNamespacePerScope ==
  \A a, b \in namespaces :
    a.used = b.used <=> GitHubScope(a.written) = GitHubScope(b.written)

\* A configuration that was accepted is carried out to the letter: the scaler
\* accepts it as well, the conversions lose nothing, and the boot disk is the
\* smallest that holds both the image and what was asked for.
AcceptedIsCarriedOut ==
  /\ pc # "failed"
  /\ limits # None => limits.min = config.min /\ limits.max = config.max
  /\ request # None =>
       /\ request.cpus = config.cpus
       /\ request.memory = config.memory * BytesPerGiB
       /\ request.disk >= request.image /\ request.disk >= config.disk * BytesPerGiB
       /\ \/ request.disk < request.image + BytesPerGiB
          \/ request.disk = config.disk * BytesPerGiB

\* A start leaves the scale set with the labels that are configured, and does
\* not touch it if it has them already, in whatever order.
LabelsFollowConfiguration ==
  [][pc = "loaded" /\ pc' = "ensured" =>
       /\ ToSet(labels') = ToSet(RunnerLabels)
       /\ labels # None /\ ToSet(labels) = ToSet(RunnerLabels) => labels' = labels]_vars

=============================================================================
