------------------------------- MODULE MCServer -------------------------------
EXTENDS Server

CONSTANTS w1, w2, h1, h2, k1, k2

MCWorker  == {w1, w2}
MCHandler == {h1, h2}
TwoKeys   == {k1, k2}

\* /data/tv2 and /data/tv, one a prefix of the other.
MCMappings == << [from |-> <<"/data/tv", "2">>, to |-> <<"/mnt/kids">>],
                 [from |-> <<"/data/tv">>, to |-> <<"/mnt/tv">>] >>
MCContinuation == {"2"}

MCFileAt == (<<"/mnt/tv", "/a">> :> k1) @@ (<<"/mnt/kids", "/b">> :> k2)
              @@ (<<"/mnt/tv", "2", "/b">> :> k1)

To(endpoint, event, path) == [endpoint |-> endpoint, event |-> event, path |-> path,
                              password |-> "secret", header |-> ""]

\* Imports of two files, requests that are turned down for each reason, a file
\* that is not there, and the status.
MCRequest ==
  { To("/webhook", "Download", <<"/data/tv", "/a">>),
    [To("/enqueue", "", <<"/data/tv", "2", "/b">>) EXCEPT !.password = "", !.header = "secret"],
    [To("/enqueue", "", <<"/data/tv", "2", "/b">>) EXCEPT !.password = "guess"],
    To("/webhook", "Test", <<>>),
    To("/webhook", "Download", <<>>),
    To("/enqueue", "", <<"/data/gone">>),
    [To("/status", "", <<>>) EXCEPT !.password = ""] }
=============================================================================
