------------------------------ MODULE MCCommand ------------------------------
EXTENDS Command

CONSTANTS f1, f2, f3, w1, w2

\* Two episodes of one base name, and a film that is left alone.
MCHome == (f1 :> <<"tv", "s1", "1.mkv">>) @@ (f2 :> <<"tv", "s2", "1.mkv">>)
            @@ (f3 :> <<"tv", "s2", "2.mkv">>)
Root == <<"q">>
Slash == <<>>

Abs(parts) == [absolute |-> TRUE, parts |-> parts]
Rel(parts) == [absolute |-> FALSE, parts |-> parts]
Typed(dir, now, args) == [cwd |-> dir, now |-> now, args |-> args]

\* Everything; one season after a detour, and again; a missing file; the queue.
Absolute == { Typed(Slash, TRUE, <<Abs(<<"tv">>)>>),
              Typed(<<"tv">>, TRUE, <<Abs(<<"tv", "s2">>), Abs(<<"tv", "s2", "..", "s1", "1.mkv">>)>>),
              Typed(Slash, TRUE, <<Abs(<<"tv", "s3">>)>>),
              Typed(<<"tv", "s1">>, FALSE, <<Abs(<<"tv", "s1">>), Abs(<<"tv", "s3">>)>>) }

\* The same episode of two seasons, each from its directory.
Relative == { Typed(<<"tv", "s1">>, TRUE, <<Rel(<<"1.mkv">>)>>),
              Typed(<<"tv", "s2">>, TRUE, <<Rel(<<"1.mkv">>)>>) }

LeftAlone == {f3}
Workers == {w1, w2}
Alike == Permutations(Workers)
=============================================================================
