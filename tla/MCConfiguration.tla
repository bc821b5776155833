--------------------------- MODULE MCConfiguration ---------------------------
(* Small instances of Configuration for TLC: one file and environment in   *)
(* which everything is in order, and what happens when parts of it vary.   *)
EXTENDS Configuration

AllWords ==
  {"", "https", "http", "github.com", "www.github.com", "ghes", "443", "8443", "org", "repo",
   "more", "yaml", "env", "silo", "set", "ci", "a", "b"}

Plain(word) == [word |-> word, upper |-> FALSE, padded |-> FALSE]
Upper(word) == [word |-> word, upper |-> TRUE, padded |-> FALSE]
Padded(word) == [word |-> word, upper |-> FALSE, padded |-> TRUE]

Url(scheme, host, port, path) ==
  [scheme |-> scheme, host |-> host, port |-> port, path |-> path, hasMore |-> FALSE]

BaseUrl == Url(Plain("https"), Plain("github.com"), "", <<Plain("org")>>)

BaseFile ==
  [url |-> BaseUrl, auth |-> [app |-> None, pat |-> Plain("yaml")],
   host |-> Plain("silo"), token |-> Plain("yaml"),
   name |-> Plain("set"), labels |-> <<>>, project |-> Plain("ci"),
   min |-> 0, max |-> 1, disk |-> 2, cpus |-> 2, memory |-> 1]

With(files, envs) == {[file |-> f, env |-> e] : f \in files, e \in envs}

\* Spellings of eight scopes, and what is no scope.
Urls ==
  {Url(scheme, host, port, path) :
     scheme \in {Plain("https"), Upper("https")},
     host \in {Plain("github.com"), Upper("www.github.com"), Plain("ghes")},
     port \in {"", "443", "8443"},
     path \in {<<Padded("org")>>, <<Upper("org")>>, <<Upper("org"), Plain("repo")>>}}
  \union {BaseUrl, [BaseUrl EXCEPT !.hasMore = TRUE], [BaseUrl EXCEPT !.path = <<>>],
          [BaseUrl EXCEPT !.scheme = Plain("http")], [BaseUrl EXCEPT !.host = Empty],
          [BaseUrl EXCEPT !.path = <<Plain("org"), Plain("repo"), Plain("more")>>]}

Spellings == With({[BaseFile EXCEPT !.url = u] : u \in Urls}, {NoEnv})

\* Secrets in the file, in the environment, in both, or nowhere: those of GitHub
\* and, apart from them, those of Oxide.
Texts == {Empty, Padded(""), Padded("yaml")}
Auths == [app : Texts \union {None}, pat : Texts \union {None}]

GitHubSecrets ==
  With({[BaseFile EXCEPT !.auth = a] : a \in Auths},
       {[NoEnv EXCEPT !.appKey = k, !.githubToken = t] :
          k, t \in {Empty, Padded(""), Plain("env")}})

OxideSecrets ==
  With({[BaseFile EXCEPT !.host = h, !.token = t] : h, t \in Texts},
       {[NoEnv EXCEPT !.host = h, !.token = t] : h, t \in {Empty, Plain("env")}})

\* Numbers on both sides of every limit: 7 for MaxInt32 and for MaxUint16, 31 for
\* int, 15 for MaxByteCountGiB.
Numbers ==
  With({[BaseFile EXCEPT !.min = a, !.max = b] : a \in {0, 7, 8, 63}, b \in {0, 7, 8, 31, 32, 63}}
       \union {[BaseFile EXCEPT !.disk = d, !.cpus = c, !.memory = m] :
                  d \in {0, 2, 15, 16, 63}, c \in {0, 1, 7, 8}, m \in {0, 1, 15, 16}},
       {NoEnv})

LabelLists ==
  {<<>>, <<Plain("a")>>, <<Upper("a")>>, <<Plain("a"), Plain("b")>>, <<Padded("b"), Plain("a")>>,
   <<Plain("a"), Upper("a")>>, <<Plain("set"), Padded("")>>, <<Plain("set")>>}

Labelings == With({[BaseFile EXCEPT !.labels = l] : l \in LabelLists}, {NoEnv})

\* The first process meets everything, the second is started with what has to
\* agree with what the first one has left.
TwoStarts ==
  <<UNION {Spellings, GitHubSecrets, OxideSecrets, Numbers, Labelings}, UNION {Spellings, Labelings}>>

NewOrOld == {None, <<Plain("b"), Plain("a")>>}
=============================================================================
