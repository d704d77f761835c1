------------------------------- MODULE Library -------------------------------
(***************************************************************************)
(* The names and the contents of the files mtx works on, shared by the      *)
(* modules of the pipeline and of the daemon.                               *)
(*                                                                          *)
(* A path is a stem (directory and base name) and an extension. Only three  *)
(* kinds of extension behave differently: "mkv", the extension every encode *)
(* ends up with; "tmp", the ".mtx-tmp.mkv" of an encode in progress; and    *)
(* "mp4", which stands for every other video extension.                     *)
(*                                                                          *)
(* A file's content is identified by the original version it shows ("of")   *)
(* and by how far it was written ("gen"): the original bytes, a complete    *)
(* re-encode, or a part of either that an interrupted write left behind.    *)
(***************************************************************************)
EXTENDS Policy

CONSTANTS
  Stem,      \* directory and base name of library files, without extension
  Version,   \* the original releases that may appear in the library
  Facts,     \* Facts[v]: what a probe of the original v reports
  Initial,   \* Initial[p]: the file at path p when mtx is first started
  NoFile     \* no file at a path

LibExt  == {"mkv", "mp4"}
LibPath == [stem : Stem, ext : LibExt]
Path    == [stem : Stem, ext : LibExt \cup {"tmp"}]

Content == [of : Version, gen : {"orig", "enc", "part"}]
Orig(v) == [of |-> v, gen |-> "orig"]
Enc(v)  == [of |-> v, gen |-> "enc"]
Part(v) == [of |-> v, gen |-> "part"]

IsOriginal(c) == c # NoFile /\ c.gen = "orig"

ASSUME FactsAssumption   == Facts \in [Version -> MediaInfo]
ASSUME NoFileAssumption  == NoFile \notin Content /\ NoFile \notin Path
\* The library starts with originals only: no temp files, and no two of its
\* files hold the same release.
ASSUME InitialAssumption ==
  /\ Initial \in [Path -> {Orig(v) : v \in Version} \cup {NoFile}]
  /\ \A s \in Stem : Initial[[stem |-> s, ext |-> "tmp"]] = NoFile
  /\ \A p, q \in Path : Initial[p] = Initial[q] => p = q \/ Initial[p] = NoFile

-----------------------------------------------------------------------------
\* Mutant: one temp name for every file.
TempOfShared(p) == [stem |-> CHOOSE s \in Stem : TRUE, ext |-> "tmp"]

\* Where the encode of path p is written, and where it ends up.
TempOf(p)  == [stem |-> p.stem, ext |-> "tmp"]
FinalOf(p) == [stem |-> p.stem, ext |-> "mkv"]

\* scan.IsVideo: all three kinds of extension are video extensions, the temp
\* files included (".mtx-tmp.mkv" ends in ".mkv").
IsVideo(p) == p.ext \in {"mkv", "mp4", "tmp"}

\* What a probe reports of a content: an encode, complete or not, shows the
\* encoder's codec. (Grain selects among encoders, never whether to encode.)
InfoOf(c) == IF c.gen = "orig"
             THEN Facts[c.of]
             ELSE EncodedInfo(Facts[c.of], Decide(Facts[c.of], FALSE).profile)

Worthwhile(c) == ShouldTranscode(Decide(InfoOf(c), FALSE))

\* No two library files differ in their extension only.
StemsDistinct ==
  \A p, q \in LibPath :
    (p.stem = q.stem /\ Initial[p] # NoFile /\ Initial[q] # NoFile) => p = q
=============================================================================
