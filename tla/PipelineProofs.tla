---------------------------- MODULE PipelineProofs ----------------------------
(***************************************************************************)
(* The safety of ProcessFile for any library and any number of workers,     *)
(* whatever call fails and whenever a process dies.                         *)
(*                                                                          *)
(* No original is lost; the pipeline implements SafeReplace; the quarantine *)
(* never receives an encode; and what ProcessFile reports is true.          *)
(***************************************************************************)
EXTENDS Pipeline, TLAPS

-----------------------------------------------------------------------------
(* Names and contents.                                                       *)

LEMMA PathFacts ==
  ASSUME NEW p \in LibPath
  PROVE  /\ p \in Path /\ TempOf(p) \in Path /\ FinalOf(p) \in Path
         /\ FinalOf(p) \in LibPath /\ TempOf(p) \notin LibPath
         /\ TempOf(p) # p /\ TempOf(p) # FinalOf(p)
         /\ TempOf(p).stem = p.stem /\ FinalOf(p).stem = p.stem
         /\ p # NoPath /\ TempOf(p) # NoPath
BY NoFileAssumption DEF LibPath, Path, LibExt, TempOf, FinalOf, NoPath

LEMMA TempFacts ==
  ASSUME NEW p \in Path
  PROVE  /\ p \notin LibPath <=> p.ext = "tmp"
         /\ p \notin LibPath => Initial[p] = NoFile
         /\ p # NoPath
<1>1. p \notin LibPath <=> p.ext = "tmp"
  BY DEF LibPath, Path, LibExt
<1>2. p.stem \in Stem
  BY DEF Path
<1>3. p.ext = "tmp" => p = [stem |-> p.stem, ext |-> "tmp"]
  BY DEF Path
<1>4. \A s \in Stem : Initial[[stem |-> s, ext |-> "tmp"]] = NoFile
  BY InitialAssumption
<1>5. p.ext = "tmp" => Initial[p] = NoFile
  BY <1>2, <1>3, <1>4
<1> QED
  BY <1>1, <1>5, NoFileAssumption DEF NoPath

LEMMA ContentFacts ==
  ASSUME NEW v \in Version
  PROVE  /\ Orig(v) \in Content /\ Enc(v) \in Content /\ Part(v) \in Content
         /\ Orig(v) # NoFile /\ Enc(v) # NoFile /\ Part(v) # NoFile
         /\ IsOriginal(Orig(v)) /\ ~IsOriginal(Enc(v)) /\ ~IsOriginal(Part(v))
         /\ Orig(v).of = v /\ Enc(v).of = v /\ Part(v).of = v
         /\ Enc(v).gen # "part" /\ Orig(v).gen # "part"
BY NoFileAssumption DEF Content, Orig, Enc, Part, IsOriginal

LEMMA OriginalIsOrig ==
  ASSUME NEW c \in Content \cup {NoFile}
  PROVE  /\ c # NoFile => c \in Content /\ c.of \in Version
         /\ IsOriginal(c) => c # NoFile /\ c = Orig(c.of)
         /\ (c # NoFile /\ ~IsOriginal(c) /\ c.gen # "part") => c = Enc(c.of)
BY DEF Content, Orig, Enc, IsOriginal

\* Whatever is there at the start is an original.
LEMMA InitialFacts ==
  ASSUME NEW p \in Path
  PROVE  /\ Initial[p] \in Content \cup {NoFile}
         /\ Initial[p] # NoFile => IsOriginal(Initial[p])
<1>1. Initial[p] \in {Orig(v) : v \in Version} \cup {NoFile}
  BY InitialAssumption
<1> QED
  BY <1>1, ContentFacts

\* An encode, complete or not, is never worth another one: the encoder's codec
\* is one the policy leaves alone (policy.go:39, args.go:42-117).
LEMMA OnlyOriginalsEncoded ==
  ASSUME NEW c \in Content, Worthwhile(c)
  PROVE  IsOriginal(c)
<1> SUFFICES ASSUME c.gen # "orig" PROVE FALSE
  BY NoFileAssumption DEF IsOriginal
<1> DEFINE m == Facts[c.of]
           profile == Decide(m, FALSE).profile
<1>1. m \in MediaInfo
  BY FactsAssumption DEF Content
<1>2. InfoOf(c) = [m EXCEPT !.codec = EncoderCodec(profile)]
  BY DEF InfoOf, EncodedInfo
<1>3. EncoderCodec(profile) \in {"hevc", "av1"}
  BY DEF EncoderCodec
<1> HIDE DEF m, profile
<1>4. AlreadyEfficient(InfoOf(c))
  BY <1>1, <1>2, <1>3 DEF AlreadyEfficient, MediaInfo
<1>5. Decide(InfoOf(c), FALSE).profile = ""
  BY <1>4 DEF Decide, LeftAlone
<1> QED
  BY <1>5 DEF Worthwhile, ShouldTranscode

-----------------------------------------------------------------------------
(* What a worker past its probe knows, and what it may not touch.            *)

LEMMA OwnFacts ==
  ASSUME PipelineInv, NEW w \in Worker, pc[w] \in Encoding
  PROVE  /\ path[w] \in LibPath /\ path[w] \in Path /\ path[w] # NoPath
         /\ Temp(w) \in Path /\ Temp(w) \notin LibPath /\ Temp(w) # NoPath
         /\ Temp(w) # path[w] /\ Temp(w).stem = path[w].stem
         /\ Initial[Temp(w)] = NoFile
         /\ media[w] \in Content /\ media[w].of \in Version
         /\ media[w] = Initial[path[w]]
         /\ media[w] = Orig(media[w].of) /\ IsOriginal(media[w])
         /\ media[w] # NoFile
         /\ Busy(w)
<1>1. /\ path[w] \in LibPath /\ media[w] # NoFile /\ media[w] = Initial[path[w]]
  BY DEF PipelineInv, CallInv, IsOriginal
<1>2. /\ path[w] \in Path /\ path[w] # NoPath
      /\ Temp(w) \in Path /\ Temp(w) \notin LibPath /\ Temp(w) # NoPath
      /\ Temp(w) # path[w] /\ Temp(w).stem = path[w].stem
  BY <1>1, PathFacts DEF Temp
<1>3. Initial[Temp(w)] = NoFile
  BY <1>2, TempFacts
<1>4. IsOriginal(media[w]) /\ media[w] \in Content \cup {NoFile}
  BY <1>1, <1>2, InitialFacts
<1>5. /\ media[w] \in Content /\ media[w].of \in Version
      /\ media[w] = Orig(media[w].of)
  BY <1>1, <1>4, OriginalIsOrig
<1>6. Busy(w)
  BY DEF Busy, Encoding, Swapping
<1> QED
  BY <1>1, <1>2, <1>3, <1>4, <1>5, <1>6

\* A step of w that touches only files of its own stem and its own variables.
OthersKept(w) ==
  /\ \A x \in Worker \ {w} : /\ pc'[x] = pc[x] /\ path'[x] = path[x]
                             /\ media'[x] = media[x] /\ input'[x] = input[x]
  /\ \A x \in Worker \ {w} : (out[x] = NoPath \/ out[x].stem # path[w].stem)
                               => out'[x] = out[x]
  /\ \A p \in Path : p.stem # path[w].stem => /\ disk'[p] = disk[p]
                                              /\ vault'[p] = vault[p]

\* What the other workers rely on survives such a step.
LEMMA OthersUndisturbed ==
  ASSUME PipelineInv, NEW w \in Worker, pc[w] \in Encoding, OthersKept(w),
         NEW x \in Worker, x # w
  PROVE  CallInv(x)'
<1>1. /\ pc'[x] = pc[x] /\ path'[x] = path[x]
      /\ media'[x] = media[x] /\ input'[x] = input[x]
  BY DEF OthersKept
<1>2. Temp(x)' = Temp(x) /\ (Busy(x)' <=> Busy(x))
  BY <1>1 DEF Temp, Busy
<1>3. CallInv(x)
  BY DEF PipelineInv
<1>4. CASE pc[x] \notin Encoding
  <2>1. /\ pc[x] \notin {"encode", "encoding", "verify", "quarantine", "copying", "unlink"}
        /\ pc[x] \notin {"encoding", "copying"}
        /\ pc[x] \notin {"verify"} \cup Swapping
        /\ pc[x] \notin {"unlink", "install"}
        /\ pc[x] # "encoding"
    BY <1>4 DEF Encoding, Swapping
  <2>2. out[x] = NoPath
    BY <1>3, <2>1 DEF CallInv
  <2>3. out'[x] = NoPath
    BY <2>2 DEF OthersKept
  <2> QED
    BY <1>1, <1>2, <1>3, <1>4, <2>1, <2>3 DEF CallInv
<1>5. CASE pc[x] \in Encoding
  <2>1. /\ path[x] \in Path /\ Temp(x) \in Path /\ Temp(x).stem = path[x].stem
        /\ IsOriginal(media[x]) /\ IsOriginal(media[w])
    BY <1>5, OwnFacts
  <2>2. path[x].stem # path[w].stem
    BY <2>1 DEF PipelineInv, OneCallPerFilm
  <2>3. /\ disk'[path[x]] = disk[path[x]] /\ vault'[path[x]] = vault[path[x]]
        /\ disk'[Temp(x)] = disk[Temp(x)]
    BY <2>1, <2>2 DEF OthersKept
  <2>4. out[x] = NoPath \/ out[x] = Temp(x)
    BY <1>3 DEF CallInv
  <2>5. out'[x] = out[x]
    BY <2>1, <2>2, <2>4 DEF OthersKept
  <2> QED
    BY <1>1, <1>2, <1>3, <2>3, <2>5 DEF CallInv
<1> QED
  BY <1>4, <1>5

\* A worker that stays busy on its path, with what it probed, keeps the workers
\* apart.
LEMMA StaysAlone ==
  ASSUME PipelineInv, NEW w \in Worker, pc[w] \in Encoding, OthersKept(w),
         path'[w] = path[w], media'[w] = media[w]
  PROVE  (Exclusive => AloneOnStem') /\ OneCallPerFilm'
<1>1. \A x \in Worker : path'[x] = path[x] /\ media'[x] = media[x] /\ (Busy(x)' => Busy(x))
  BY OwnFacts DEF OthersKept, Busy
<1> QED
  BY <1>1 DEF PipelineInv, AloneOnStem, OneCallPerFilm

\* A step that changes no file and nothing that is owed.
LEMMA QuietStep ==
  ASSUME PipelineInv, UNCHANGED <<disk, vault, owed>>,
         PipelineTypeOK', Exclusive => AloneOnStem', OneCallPerFilm',
         \A w \in Worker : CallInv(w)'
  PROVE  PipelineInv'
BY DEF PipelineInv, OwedInv, FilesInv, OriginalsKept, BrokenCopyHasOriginal, LibraryWhole

\* A step of a worker on its stem that keeps the invariant of the files.
LEMMA StemStep ==
  ASSUME PipelineInv, NEW w \in Worker, pc[w] \in Encoding, OthersKept(w),
         path'[w] = path[w], media'[w] = media[w], owed' = owed,
         PipelineTypeOK', CallInv(w)',
         FilesInv', OriginalsKept', BrokenCopyHasOriginal', LibraryWhole'
  PROVE  PipelineInv'
<1>1. \A x \in Worker : CallInv(x)'
  BY OthersUndisturbed
<1>2. (Exclusive => AloneOnStem') /\ OneCallPerFilm'
  BY StaysAlone
<1>3. OwedInv'
  BY DEF PipelineInv, OwedInv
<1> QED
  BY <1>1, <1>2, <1>3 DEF PipelineInv

-----------------------------------------------------------------------------
(* The ways ProcessFile changes files, each on its own stem.                 *)

FileInvs == FilesInv /\ OriginalsKept /\ BrokenCopyHasOriginal /\ LibraryWhole

\* The temp file is written, or removed.
LEMMA TempWrite ==
  ASSUME PipelineInv, NEW w \in Worker, pc[w] \in Encoding,
         NEW c \in Content \cup {NoFile}, ~IsOriginal(c),
         disk' = [disk EXCEPT ![Temp(w)] = c], vault' = vault, owed' = owed
  PROVE  /\ FileInvs'
         /\ disk' \in [Path -> Content \cup {NoFile}]
         /\ disk'[Temp(w)] = c
         /\ \A p \in Path : p # Temp(w) => disk'[p] = disk[p]
<1>1. disk \in [Path -> Content \cup {NoFile}] /\ Temp(w) \in Path
  BY OwnFacts DEF PipelineInv, PipelineTypeOK
<1>2. /\ disk' \in [Path -> Content \cup {NoFile}]
      /\ disk'[Temp(w)] = c
      /\ \A p \in Path : p # Temp(w) => disk'[p] = disk[p]
  BY <1>1
<1>3. Temp(w) \notin LibPath /\ vault[Temp(w)] = NoFile
  BY OwnFacts DEF PipelineInv, FilesInv
<1>4. \A p \in LibPath : p \in Path
  BY PathFacts
<1>5. FilesInv'
  BY <1>2 DEF PipelineInv, FilesInv
<1>6. OriginalsKept'
  BY <1>2, <1>3, <1>4 DEF PipelineInv, PipelineTypeOK, OriginalsKept
<1>7. BrokenCopyHasOriginal'
  BY <1>2, <1>3 DEF PipelineInv, BrokenCopyHasOriginal
<1>8. LibraryWhole'
  BY <1>2, <1>3, <1>4 DEF PipelineInv, LibraryWhole
<1> QED
  BY <1>2, <1>5, <1>6, <1>7, <1>8 DEF FileInvs

\* The quarantined copy is written, or removed, while the original is in place.
LEMMA VaultWrite ==
  ASSUME PipelineInv, NEW w \in Worker, pc[w] \in Encoding,
         disk[path[w]] = media[w],
         NEW c \in Content \cup {NoFile}, c # NoFile => c.of = media[w].of,
         vault' = [vault EXCEPT ![path[w]] = c], disk' = disk, owed' = owed
  PROVE  /\ FileInvs'
         /\ vault' \in [Path -> Content \cup {NoFile}]
         /\ vault'[path[w]] = c
         /\ \A p \in Path : p # path[w] => vault'[p] = vault[p]
<1>1. vault \in [Path -> Content \cup {NoFile}] /\ path[w] \in Path
  BY OwnFacts DEF PipelineInv, PipelineTypeOK
<1>2. /\ vault' \in [Path -> Content \cup {NoFile}]
      /\ vault'[path[w]] = c
      /\ \A p \in Path : p # path[w] => vault'[p] = vault[p]
  BY <1>1
<1>3. /\ media[w] = Initial[path[w]] /\ media[w] # NoFile
      /\ media[w] = Orig(media[w].of) /\ media[w].of \in Version
  BY OwnFacts
<1>4. \A p \in LibPath : p \in Path
  BY PathFacts
<1>5. FilesInv'
  BY <1>2, <1>3 DEF PipelineInv, FilesInv
<1>6. OriginalsKept'
  <2>1. ASSUME NEW o \in owed
        PROVE  disk[o[1]] = Orig(o[2]) \/ vault'[o[1]] = Orig(o[2])
    <3>1. o[1] \in Path /\ Initial[o[1]] = Orig(o[2])
      BY <1>4 DEF PipelineInv, PipelineTypeOK, OwedInv
    <3>2. CASE o[1] = path[w]
      BY <1>3, <3>1, <3>2
    <3>3. CASE o[1] # path[w]
      BY <1>2, <3>1, <3>3 DEF PipelineInv, OriginalsKept
    <3> QED
      BY <3>2, <3>3
  <2> QED
    BY <2>1 DEF OriginalsKept
<1>7. BrokenCopyHasOriginal'
  BY <1>2, <1>3 DEF PipelineInv, BrokenCopyHasOriginal
<1>8. LibraryWhole'
  BY DEF PipelineInv, LibraryWhole
<1> QED
  BY <1>2, <1>5, <1>6, <1>7, <1>8 DEF FileInvs

\* The original leaves its path, and is in the quarantine then.
LEMMA LeavesPath ==
  ASSUME PipelineInv, NEW w \in Worker, pc[w] \in Encoding,
         disk' = [disk EXCEPT ![path[w]] = NoFile], owed' = owed,
         vault' \in [Path -> Content \cup {NoFile}],
         vault'[path[w]] = media[w],
         \A p \in Path : p # path[w] => vault'[p] = vault[p]
  PROVE  /\ FileInvs'
         /\ disk' \in [Path -> Content \cup {NoFile}]
         /\ \A p \in Path : p # path[w] => disk'[p] = disk[p]
<1>1. disk \in [Path -> Content \cup {NoFile}] /\ path[w] \in Path
  BY OwnFacts DEF PipelineInv, PipelineTypeOK
<1>2. /\ disk' \in [Path -> Content \cup {NoFile}]
      /\ disk'[path[w]] = NoFile
      /\ \A p \in Path : p # path[w] => disk'[p] = disk[p]
  BY <1>1
<1>3. /\ media[w] = Initial[path[w]] /\ media[w] # NoFile
      /\ IsOriginal(media[w])
  BY OwnFacts
<1>4. \A p \in LibPath : p \in Path
  BY PathFacts
<1>5. FilesInv'
  BY <1>2, <1>3 DEF PipelineInv, FilesInv, IsOriginal
<1>6. OriginalsKept'
  <2>1. ASSUME NEW o \in owed
        PROVE  disk'[o[1]] = Orig(o[2]) \/ vault'[o[1]] = Orig(o[2])
    <3>1. o[1] \in Path /\ Initial[o[1]] = Orig(o[2])
      BY <1>4 DEF PipelineInv, PipelineTypeOK, OwedInv
    <3>2. CASE o[1] = path[w]
      BY <1>3, <3>1, <3>2
    <3>3. CASE o[1] # path[w]
      BY <1>2, <3>1, <3>3 DEF PipelineInv, OriginalsKept
    <3> QED
      BY <3>2, <3>3
  <2> QED
    BY <2>1 DEF OriginalsKept
<1>7. BrokenCopyHasOriginal'
  BY <1>2, <1>3 DEF PipelineInv, BrokenCopyHasOriginal
<1>8. LibraryWhole'
  BY <1>2, <1>4 DEF PipelineInv, LibraryWhole
<1> QED
  BY <1>2, <1>5, <1>6, <1>7, <1>8 DEF FileInvs

\* The encode is renamed to its final name. When that is another name than the
\* original's, StemsDistinct says that no original was ever there.
LEMMA Installs ==
  ASSUME PipelineInv, StemsDistinct, NEW w \in Worker, pc[w] = "install",
         disk' = [disk EXCEPT ![FinalOf(path[w])] = disk[Temp(w)], ![Temp(w)] = NoFile],
         vault' = vault, owed' = owed
  PROVE  /\ FileInvs'
         /\ disk' \in [Path -> Content \cup {NoFile}]
         /\ \A p \in Path : (p # Temp(w) /\ p # FinalOf(path[w])) => disk'[p] = disk[p]
<1> DEFINE f == FinalOf(path[w])
<1>1. pc[w] \in Encoding
  BY DEF Encoding, Swapping
<1>2. /\ f \in Path /\ f \in LibPath /\ f.stem = path[w].stem
      /\ path[w] \in LibPath /\ Temp(w) \in Path /\ Temp(w) # f
      /\ Temp(w) \notin LibPath
  BY <1>1, OwnFacts, PathFacts DEF Temp
<1>3. disk \in [Path -> Content \cup {NoFile}]
  BY DEF PipelineInv, PipelineTypeOK
<1>4. /\ disk[Temp(w)] = Enc(media[w].of) /\ vault[path[w]] = media[w]
  BY DEF PipelineInv, CallInv, Swapping
<1>5. /\ media[w].of \in Version /\ IsOriginal(media[w])
      /\ media[w] = Initial[path[w]] /\ media[w] # NoFile
      /\ Initial[Temp(w)] = NoFile
  BY <1>1, OwnFacts
<1>6. /\ ~IsOriginal(Enc(media[w].of)) /\ Enc(media[w].of).gen # "part"
      /\ Enc(media[w].of) \in Content
  BY <1>5, ContentFacts
<1> HIDE DEF f
<1>7. /\ disk' \in [Path -> Content \cup {NoFile}]
      /\ disk'[f] = Enc(media[w].of)
      /\ disk'[Temp(w)] = NoFile
      /\ \A p \in Path : (p # Temp(w) /\ p # f) => disk'[p] = disk[p]
  BY <1>2, <1>3, <1>4 DEF f
<1>8. \A p \in LibPath : p \in Path
  BY PathFacts
<1>9. f # path[w] => Initial[f] = NoFile
  BY <1>2, <1>5 DEF StemsDistinct
<1>10. f # path[w] => vault[f] = NoFile
  BY <1>2, <1>9 DEF PipelineInv, FilesInv
<1>11. FilesInv'
  BY <1>6, <1>7 DEF PipelineInv, FilesInv, IsOriginal
<1>12. OriginalsKept'
  <2>1. ASSUME NEW o \in owed
        PROVE  disk'[o[1]] = Orig(o[2]) \/ vault[o[1]] = Orig(o[2])
    <3>1. /\ o[1] \in Path /\ o[1] \in LibPath /\ o[2] \in Version
          /\ Initial[o[1]] = Orig(o[2]) /\ Initial[o[1]] # NoFile
      BY <1>8, ContentFacts DEF PipelineInv, PipelineTypeOK, OwedInv
    <3>2. CASE o[1] = path[w]
      BY <1>4, <1>5, <3>1, <3>2
    <3>3. CASE o[1] # path[w]
      <4>1. o[1] # f /\ o[1] # Temp(w)
        BY <1>2, <1>9, <3>1, <3>3
      <4> QED
        BY <1>7, <3>1, <4>1 DEF PipelineInv, OriginalsKept
    <3> QED
      BY <3>2, <3>3
  <2> QED
    BY <2>1 DEF OriginalsKept
<1>13. BrokenCopyHasOriginal'
  <2>1. ASSUME NEW p \in Path, vault[p] # NoFile, ~IsOriginal(vault[p])
        PROVE  disk'[p] = Orig(vault[p].of)
    <3>1. disk[p] = Orig(vault[p].of)
      BY <2>1 DEF PipelineInv, BrokenCopyHasOriginal
    <3>2. p # f
      BY <1>4, <1>5, <1>10, <2>1
    <3>3. vault[Temp(w)] = NoFile
      BY <1>2, <1>5 DEF PipelineInv, FilesInv
    <3> QED
      BY <1>7, <2>1, <3>1, <3>2, <3>3
  <2> QED
    BY <2>1 DEF BrokenCopyHasOriginal
<1>14. LibraryWhole'
  BY <1>6, <1>7, <1>8 DEF PipelineInv, LibraryWhole
<1> QED
  BY <1>7, <1>11, <1>12, <1>13, <1>14 DEF FileInvs, f

-----------------------------------------------------------------------------
(* Steps that change no file.                                                *)

\* Other workers' calls are untouched by a step of w that changes no file.
LEMMA QuietOthers ==
  ASSUME PipelineInv, NEW w \in Worker, UNCHANGED fileVars,
         \A x \in Worker \ {w} : /\ pc'[x] = pc[x] /\ path'[x] = path[x]
                                 /\ media'[x] = media[x] /\ input'[x] = input[x]
                                 /\ out'[x] = out[x]
  PROVE  \A x \in Worker \ {w} : CallInv(x)'
BY DEF PipelineInv, CallInv, Busy, Temp, fileVars

\* A worker that moves on from one point to another, or gives up its call.
LEMMA QuietKeepsInv ==
  ASSUME PipelineInv, NEW w \in Worker, UNCHANGED <<fileVars, owed>>,
         PipelineTypeOK', CallInv(w)',
         Busy(w)' => Busy(w) /\ path'[w] = path[w],
         IsOriginal(media'[w]) => media'[w] = media[w] /\ path'[w] = path[w],
         \A x \in Worker \ {w} : /\ pc'[x] = pc[x] /\ path'[x] = path[x]
                                 /\ media'[x] = media[x] /\ input'[x] = input[x]
                                 /\ out'[x] = out[x]
  PROVE  PipelineInv'
<1>1. \A x \in Worker : CallInv(x)'
  BY QuietOthers
<1>2. Exclusive => AloneOnStem'
  BY DEF PipelineInv, AloneOnStem, Busy
<1>3. OneCallPerFilm'
  BY DEF PipelineInv, OneCallPerFilm
<1> QED
  BY <1>1, <1>2, <1>3, QuietStep DEF fileVars

LEMMA BeginKeepsInv ==
  ASSUME PipelineInv, NEW w \in Worker, NEW p \in Path, Begin(w, p)
  PROVE  PipelineInv'
<1>1. /\ pc[w] = "idle"
      /\ (Exclusive /\ p.ext \in LibExt) => \A x \in Worker : ~SameStem(x, p)
      /\ pc' = [pc EXCEPT ![w] = "probe"] /\ path' = [path EXCEPT ![w] = p]
      /\ UNCHANGED <<fileVars, media, input, result, out, cancelled, owed>>
  BY DEF Begin, Goto
<1>2. PipelineTypeOK'
  BY <1>1 DEF PipelineInv, PipelineTypeOK, PC, fileVars
<1>3. pc'[w] = "probe" /\ path'[w] = p
  BY <1>1 DEF PipelineInv, PipelineTypeOK
<1>4. \A x \in Worker \ {w} : pc'[x] = pc[x] /\ path'[x] = path[x]
  BY <1>1 DEF PipelineInv, PipelineTypeOK
<1>5. \A x \in Worker \ {w} : CallInv(x)'
  BY <1>1, <1>4, QuietOthers
<1>6. CallInv(w)'
  <2>1. out[w] = NoPath /\ media[w] = NoFile
    BY <1>1 DEF PipelineInv, CallInv
  <2> QED
    BY <1>1, <1>3, <2>1 DEF CallInv, Encoding, Swapping, IsOriginal
<1>7. ASSUME Exclusive PROVE AloneOnStem'
  <2>1. p \in LibPath => p.ext \in LibExt
    BY DEF LibPath
  <2>2. ASSUME NEW x \in Worker, x # w, Busy(x)', path'[x] \in LibPath, p \in LibPath
        PROVE  path'[x].stem # p.stem
    <3>1. path'[x].ext \in LibExt
      BY <2>2 DEF LibPath
    <3> QED
      BY <1>1, <1>4, <1>7, <2>1, <2>2, <3>1 DEF SameStem, Busy
  <2>3. ASSUME NEW x \in Worker, NEW y \in Worker,
               Busy(x)', path'[x] \in LibPath, Busy(y)', path'[y] \in LibPath,
               path'[x].stem = path'[y].stem
        PROVE  x = y
    <3>1. CASE x = w \/ y = w
      BY <1>3, <2>2, <2>3, <3>1
    <3>2. CASE x # w /\ y # w
      BY <1>4, <1>7, <2>3, <3>2 DEF PipelineInv, AloneOnStem, Busy
    <3> QED
      BY <3>1, <3>2
  <2> QED
    BY <2>3 DEF AloneOnStem
<1>8. OneCallPerFilm'
  BY <1>1, <1>4 DEF PipelineInv, OneCallPerFilm, CallInv, IsOriginal
<1> QED
  BY <1>1, <1>2, <1>5, <1>6, <1>7, <1>8, QuietStep DEF fileVars

\* The probe and what may go wrong with it. That nobody else has the same
\* original in hand is for the caller to see to.
LEMMA ProbeKeepsInv ==
  ASSUME PipelineInv, NEW w \in Worker, ProbeFails(w) \/ Probe(w), OneCallPerFilm'
  PROVE  PipelineInv'
<1> DEFINE m == disk[path[w]]
<1>1. /\ pc[w] = "probe" /\ out[w] = NoPath /\ media[w] = NoFile
      /\ path[w] \in Path /\ Busy(w)
  BY DEF ProbeFails, Probe, PipelineInv, CallInv, Busy
<1>2. UNCHANGED <<fileVars, path, input, out, cancelled, owed>>
  BY DEF ProbeFails, Probe
<1>3. PipelineTypeOK
  BY DEF PipelineInv
<1>4. m \in Content \cup {NoFile}
  BY <1>1, <1>3 DEF PipelineTypeOK
<1> HIDE DEF m
<1>5. CASE ProbeFails(w)
  <2>1. /\ pc' = [pc EXCEPT ![w] = "return"] /\ media' = media
        /\ result' = [result EXCEPT ![w] = "failed"]
    BY <1>5 DEF ProbeFails, Return, Goto
  <2>2. PipelineTypeOK'
    BY <1>2, <1>3, <2>1 DEF PipelineTypeOK, PC, Outcome, fileVars
  <2>3. pc'[w] = "return"
    BY <1>3, <2>1 DEF PipelineTypeOK
  <2>4. CallInv(w)'
    BY <1>1, <1>2, <2>1, <2>3 DEF CallInv, Encoding, Swapping, IsOriginal
  <2> QED
    BY <1>1, <1>2, <1>3, <2>1, <2>2, <2>4, QuietKeepsInv DEF PipelineTypeOK
<1>6. CASE Probe(w)
  <2>1. /\ media' = [media EXCEPT ![w] = m]
        /\ \/ /\ Worthwhile(m) /\ pc' = [pc EXCEPT ![w] = "encode"] /\ result' = result
           \/ /\ pc' = [pc EXCEPT ![w] = "return"]
              /\ result' = [result EXCEPT ![w] = "skipped"]
        /\ m # NoFile
    BY <1>6 DEF Probe, Return, Goto, m
  <2>2. PipelineTypeOK'
    BY <1>2, <1>3, <1>4, <2>1
       DEF PipelineTypeOK, PC, Encoding, Swapping, Outcome, fileVars
  <2>3. /\ media'[w] = m /\ pc'[w] \in {"encode", "return"}
        /\ \A x \in Worker \ {w} : pc'[x] = pc[x] /\ media'[x] = media[x]
        /\ pc'[w] = "encode" => Worthwhile(m)
    BY <1>3, <2>1 DEF PipelineTypeOK
  <2>4. IsOriginal(m) => m = Initial[path[w]] /\ path[w] \in LibPath
    BY <1>1, TempFacts DEF PipelineInv, FilesInv, IsOriginal, m
  <2>5. pc'[w] = "encode" => IsOriginal(m)
    BY <1>4, <2>1, <2>3, OnlyOriginalsEncoded
  <2>6. disk'[path[w]] = m
    BY <1>2 DEF m, fileVars
  <2>7. CallInv(w)'
    BY <1>1, <1>2, <2>3, <2>4, <2>5, <2>6 DEF CallInv, Encoding, Swapping
  <2>8. \A x \in Worker \ {w} : CallInv(x)'
    BY <1>2, <2>3, QuietOthers
  <2>9. Exclusive => AloneOnStem'
    BY <1>1, <1>2, <2>3 DEF PipelineInv, AloneOnStem, Busy
  <2> QED
    BY <1>2, <2>2, <2>7, <2>8, <2>9, QuietStep DEF fileVars
<1> QED
  BY <1>5, <1>6

\* An Exclusive caller sees to it.
LEMMA ExclusiveProbe ==
  ASSUME Exclusive, PipelineInv, NEW w \in Worker, Probe(w)
  PROVE  OneCallPerFilm'
<1>1. /\ pc[w] = "probe" /\ path[w] \in Path /\ Busy(w)
      /\ media' = [media EXCEPT ![w] = disk[path[w]]] /\ path' = path
      /\ media \in [Worker -> Content \cup {NoFile}]
  BY DEF Probe, PipelineInv, PipelineTypeOK, CallInv, Busy
<1>2. IsOriginal(media'[w]) => path[w] \in LibPath
  BY <1>1, TempFacts DEF PipelineInv, FilesInv, IsOriginal
<1>3. ASSUME NEW x \in Worker, x # w, IsOriginal(media'[x]) PROVE Busy(x) /\ path[x] \in LibPath
  BY <1>1, <1>3 DEF PipelineInv, CallInv, Busy, IsOriginal
<1> QED
  BY <1>1, <1>2, <1>3 DEF PipelineInv, AloneOnStem, OneCallPerFilm

\* A call that ends early leaves every file as it is.
LEMMA ConcludesQuietly ==
  ASSUME PipelineInv, NEW w \in Worker, pc[w] \in Encoding,
         NEW r \in Outcome, Conclude(w, r),
         UNCHANGED <<fileVars, path, media, input, cancelled, owed>>,
         \/ pc[w] # "encoding" /\ out' = out
         \/ out' = [out EXCEPT ![w] = NoPath]
  PROVE  PipelineInv'
<1>1. PipelineTypeOK
  BY DEF PipelineInv
<1>2. pc' = [pc EXCEPT ![w] = "cleanup"] /\ result' = [result EXCEPT ![w] = r]
  BY DEF Conclude, Goto
<1>3. PipelineTypeOK'
  BY <1>1, <1>2 DEF PipelineTypeOK, PC, Encoding, Swapping, Outcome, fileVars, NoPath
<1>4. /\ pc'[w] = "cleanup" /\ out'[w] = NoPath
  BY <1>1, <1>2 DEF PipelineTypeOK, PipelineInv, CallInv
<1>5. CallInv(w)'
  BY <1>4, OwnFacts DEF CallInv, Encoding, Swapping
<1>6. \A x \in Worker \ {w} : pc'[x] = pc[x] /\ out'[x] = out[x]
  BY <1>1, <1>2 DEF PipelineTypeOK
<1> QED
  BY <1>3, <1>5, <1>6, OwnFacts, QuietKeepsInv

LEMMA GivingUpKeepsInv ==
  ASSUME PipelineInv, NEW w \in Worker,
         \/ EncodeRefused(w) \/ EncodeFails(w) \/ VerifyFails(w) \/ NotSmaller(w)
         \/ QuarantineFails(w) \/ UnlinkFails(w) \/ InstallFails(w)
  PROVE  PipelineInv'
<1>1. pc[w] \in Encoding
  BY DEF EncodeRefused, EncodeFails, VerifyFails, NotSmaller, QuarantineFails,
         UnlinkFails, InstallFails, Encoding, Swapping
<1>2. "failed" \in Outcome /\ "skipped" \in Outcome
  BY DEF Outcome
<1>3. CASE EncodeFails(w)
  BY <1>1, <1>2, <1>3, ConcludesQuietly DEF EncodeFails
<1>4. CASE NotSmaller(w)
  BY <1>1, <1>2, <1>4, ConcludesQuietly DEF NotSmaller
<1>5. CASE \/ EncodeRefused(w) \/ VerifyFails(w) \/ QuarantineFails(w)
           \/ UnlinkFails(w) \/ InstallFails(w)
  <2>1. /\ Conclude(w, "failed") /\ pc[w] # "encoding"
        /\ UNCHANGED <<fileVars, path, media, input, out, cancelled, owed>>
    BY <1>5 DEF EncodeRefused, VerifyFails, QuarantineFails, UnlinkFails, InstallFails
  <2> QED
    BY <1>1, <1>2, <2>1, ConcludesQuietly
<1> QED
  BY <1>3, <1>4, <1>5

LEMMA VerifiedKeepsInv ==
  ASSUME PipelineInv, NEW w \in Worker, Verified(w)
  PROVE  PipelineInv'
<1>1. PipelineTypeOK /\ pc[w] = "verify" /\ pc[w] \in Encoding
  BY DEF PipelineInv, Verified, Encoding
<1>2. /\ pc' = [pc EXCEPT ![w] = "quarantine"]
      /\ UNCHANGED <<fileVars, callVars, out, cancelled, owed>>
  BY DEF Verified, Goto
<1>3. PipelineTypeOK'
  BY <1>1, <1>2 DEF PipelineTypeOK, PC, Encoding, Swapping, fileVars, callVars
<1>4. pc'[w] = "quarantine" /\ \A x \in Worker \ {w} : pc'[x] = pc[x]
  BY <1>1, <1>2 DEF PipelineTypeOK
<1>5. CallInv(w)
  BY DEF PipelineInv
<1>6. CallInv(w)'
  BY <1>1, <1>2, <1>4, <1>5
     DEF CallInv, Encoding, Swapping, fileVars, callVars, Temp, Busy
<1> QED
  BY <1>1, <1>2, <1>3, <1>4, <1>6, OwnFacts, QuietKeepsInv DEF callVars

\* A call that has returned, or whose process has died.
LEMMA LeavingKeepsInv ==
  ASSUME PipelineInv, NEW w \in Worker, Finish(w) \/ Crash(w)
  PROVE  PipelineInv'
<1>1. PipelineTypeOK
  BY DEF PipelineInv
<1>2. /\ pc' = [pc EXCEPT ![w] = "idle"]
      /\ path' = [path EXCEPT ![w] = NoPath]
      /\ media' = [media EXCEPT ![w] = NoFile]
      /\ input' = [input EXCEPT ![w] = NoFile]
      /\ result' = [result EXCEPT ![w] = "done"]
      /\ UNCHANGED <<fileVars, cancelled, owed>>
  BY DEF Finish, Crash, Forget, Goto
<1>3. out' = [out EXCEPT ![w] = NoPath]
  <2>1. CASE Finish(w)
    <3>1. out[w] = NoPath /\ out' = out
      BY <2>1 DEF Finish, PipelineInv, CallInv
    <3> QED
      BY <1>1, <3>1 DEF PipelineTypeOK
  <2>2. CASE Crash(w)
    BY <2>2 DEF Crash
  <2> QED
    BY <2>1, <2>2
<1>4. PipelineTypeOK'
  BY <1>1, <1>2, <1>3 DEF PipelineTypeOK, PC, Outcome, fileVars, NoPath
<1>5. pc'[w] = "idle" /\ out'[w] = NoPath /\ media'[w] = NoFile
  BY <1>1, <1>2, <1>3 DEF PipelineTypeOK
<1>6. CallInv(w)'
  BY <1>5 DEF CallInv, Busy, Encoding, Swapping, IsOriginal
<1>7. \A x \in Worker \ {w} : /\ pc'[x] = pc[x] /\ path'[x] = path[x]
                              /\ media'[x] = media[x] /\ input'[x] = input[x]
                              /\ out'[x] = out[x]
  BY <1>1, <1>2, <1>3 DEF PipelineTypeOK
<1> QED
  BY <1>2, <1>4, <1>5, <1>6, <1>7, QuietKeepsInv DEF Busy, IsOriginal

\* The context, and nothing else, changes.
LEMMA ContextKeepsInv ==
  ASSUME PipelineInv, cancelled' \in BOOLEAN,
         UNCHANGED <<fileVars, pc, callVars, out, owed>>
  PROVE  PipelineInv'
<1>1. PipelineTypeOK'
  BY DEF PipelineInv, PipelineTypeOK, fileVars, callVars
<1>2. \A w \in Worker : CallInv(w)'
  BY DEF PipelineInv, CallInv, Busy, Temp, fileVars, callVars
<1>3. (Exclusive => AloneOnStem') /\ OneCallPerFilm'
  BY DEF PipelineInv, AloneOnStem, OneCallPerFilm, Busy, callVars
<1> QED
  BY <1>1, <1>2, <1>3, QuietStep DEF fileVars

-----------------------------------------------------------------------------
(* Steps that change files.                                                  *)

LEMMA StartEncodeKeepsInv ==
  ASSUME PipelineInv, NEW w \in Worker, StartEncode(w)
  PROVE  PipelineInv'
<1>1. PipelineTypeOK /\ CallInv(w) /\ pc[w] = "encode" /\ pc[w] \in Encoding
  BY DEF PipelineInv, StartEncode, Encoding
<1>2. disk[path[w]] = media[w]
  BY <1>1 DEF CallInv
<1> DEFINE c == Part(media[w].of)
<1>3. /\ input' = [input EXCEPT ![w] = media[w]]
      /\ disk' = [disk EXCEPT ![Temp(w)] = c]
      /\ out' = [out EXCEPT ![w] = Temp(w)]
      /\ pc' = [pc EXCEPT ![w] = "encoding"]
      /\ UNCHANGED <<vault, path, media, result, cancelled, owed>>
  BY <1>2 DEF StartEncode, Goto
<1>4. c \in Content \cup {NoFile} /\ ~IsOriginal(c)
  BY <1>1, OwnFacts, ContentFacts
<1> HIDE DEF c
<1>5. /\ FileInvs'
      /\ disk' \in [Path -> Content \cup {NoFile}]
      /\ disk'[Temp(w)] = c
      /\ \A p \in Path : p # Temp(w) => disk'[p] = disk[p]
  BY <1>1, <1>3, <1>4, TempWrite
<1>6. /\ path[w] \in Path /\ path[w] # Temp(w) /\ Temp(w) \in Path
      /\ Temp(w).stem = path[w].stem /\ media[w] \in Content
  BY <1>1, OwnFacts
<1>7. PipelineTypeOK'
  BY <1>1, <1>3, <1>5, <1>6 DEF PipelineTypeOK, PC, Encoding
<1>8. OthersKept(w)
  BY <1>1, <1>3, <1>5, <1>6 DEF OthersKept, PipelineTypeOK
<1>9. /\ pc'[w] = "encoding" /\ out'[w] = Temp(w) /\ input'[w] = media[w]
  BY <1>1, <1>3 DEF PipelineTypeOK
<1>10. CallInv(w)'
  BY <1>1, <1>2, <1>3, <1>5, <1>6, <1>9, OwnFacts
     DEF CallInv, Encoding, Swapping, Temp, Busy
<1> QED
  BY <1>1, <1>3, <1>5, <1>7, <1>8, <1>10, StemStep DEF FileInvs

LEMMA EncodeDoneKeepsInv ==
  ASSUME PipelineInv, NEW w \in Worker, EncodeDone(w)
  PROVE  PipelineInv'
<1>1. PipelineTypeOK /\ CallInv(w) /\ pc[w] = "encoding" /\ pc[w] \in Encoding
  BY DEF PipelineInv, EncodeDone, Encoding
<1>2. out[w] = Temp(w) /\ input[w] = media[w] /\ disk[path[w]] = media[w]
  BY <1>1 DEF CallInv
<1>3. \A x \in Worker \ {w} : out[x] # out[w]
  <2> SUFFICES ASSUME NEW x \in Worker, x # w, out[x] = Temp(w) PROVE FALSE
    BY <1>2
  <2>1. Temp(w) # NoPath /\ Temp(w).stem = path[w].stem /\ IsOriginal(media[w])
    BY <1>1, OwnFacts
  <2>2. pc[x] = "encoding" /\ out[x] = Temp(x)
    BY <2>1 DEF PipelineInv, CallInv
  <2>3. Temp(x).stem = path[x].stem /\ IsOriginal(media[x])
    BY <2>2, OwnFacts DEF Encoding
  <2> QED
    BY <2>1, <2>2, <2>3 DEF PipelineInv, OneCallPerFilm
<1> DEFINE c == Enc(media[w].of)
<1>4. /\ disk' = [disk EXCEPT ![Temp(w)] = c]
      /\ out' = [out EXCEPT ![w] = NoPath]
      /\ pc' = [pc EXCEPT ![w] = "verify"]
      /\ UNCHANGED <<vault, path, media, input, result, cancelled, owed>>
  BY <1>1, <1>2, <1>3, OwnFacts DEF EncodeDone, Goto, Enc
<1>5. c \in Content \cup {NoFile} /\ ~IsOriginal(c)
  BY <1>1, OwnFacts, ContentFacts
<1>6. c = Enc(media[w].of)
  OBVIOUS
<1> HIDE DEF c
<1>7. /\ FileInvs'
      /\ disk' \in [Path -> Content \cup {NoFile}]
      /\ disk'[Temp(w)] = c
      /\ \A p \in Path : p # Temp(w) => disk'[p] = disk[p]
  BY <1>1, <1>4, <1>5, TempWrite
<1>8. /\ path[w] \in Path /\ path[w] # Temp(w) /\ Temp(w) \in Path
      /\ Temp(w).stem = path[w].stem
  BY <1>1, OwnFacts
<1>9. PipelineTypeOK'
  BY <1>1, <1>4, <1>7 DEF PipelineTypeOK, PC, Encoding, NoPath
<1>10. OthersKept(w)
  BY <1>1, <1>4, <1>7, <1>8 DEF OthersKept, PipelineTypeOK
<1>11. pc'[w] = "verify" /\ out'[w] = NoPath
  BY <1>1, <1>4 DEF PipelineTypeOK
<1>12. CallInv(w)'
  BY <1>1, <1>2, <1>4, <1>6, <1>7, <1>8, <1>11, OwnFacts
     DEF CallInv, Encoding, Swapping, Temp, Busy
<1> QED
  BY <1>1, <1>4, <1>7, <1>9, <1>10, <1>12, StemStep DEF FileInvs

\* A file that is open for writing under a name of w's stem is w's own.
LEMMA RelinkOthers ==
  ASSUME PipelineInv, NEW w \in Worker, NEW from \in Path, NEW to,
         from.stem = path[w].stem, to = NoPath \/ to.stem = path[w].stem,
         out' = Relinked(from, to)
  PROVE  /\ \A x \in Worker \ {w} : (out[x] = NoPath \/ out[x].stem # path[w].stem)
                                      => out'[x] = out[x]
         /\ out[w] = NoPath => out'[w] = NoPath
<1>1. from # NoPath
  BY TempFacts
<1>2. \A x \in Worker : out'[x] = IF out[x] = from THEN to
                                  ELSE IF out[x] = to THEN NoPath ELSE out[x]
  BY DEF Relinked
<1> QED
  BY <1>1, <1>2

\* The four steps of the copy to another file system: only the quarantined
\* file changes, and the original is still in place.
LEMMA CopyStep ==
  ASSUME PipelineInv, NEW w \in Worker, pc[w] \in Encoding, pc[w] # "encoding",
         disk[path[w]] = media[w],
         NEW c \in Content \cup {NoFile}, c # NoFile => c.of = media[w].of,
         vault' = [vault EXCEPT ![path[w]] = c],
         pc' \in [Worker -> PC], \A x \in Worker \ {w} : pc'[x] = pc[x],
         input' \in [Worker -> Content \cup {NoFile}],
         \A x \in Worker \ {w} : input'[x] = input[x],
         result' \in [Worker -> Outcome],
         UNCHANGED <<disk, path, media, out, cancelled, owed>>,
         \/ /\ pc'[w] = "copying" /\ input'[w] = media[w]
            /\ disk[Temp(w)] = Enc(media[w].of)
         \/ /\ pc'[w] = "unlink" /\ c = media[w]
            /\ disk[Temp(w)] = Enc(media[w].of)
         \/ pc'[w] = "cleanup"
  PROVE  PipelineInv'
<1>1. PipelineTypeOK /\ CallInv(w)
  BY DEF PipelineInv
<1>2. /\ FileInvs'
      /\ vault' \in [Path -> Content \cup {NoFile}]
      /\ vault'[path[w]] = c
      /\ \A p \in Path : p # path[w] => vault'[p] = vault[p]
  BY VaultWrite
<1>3. PipelineTypeOK'
  BY <1>1, <1>2 DEF PipelineTypeOK
<1>4. OthersKept(w)
  BY <1>2 DEF OthersKept
<1>5. CallInv(w)'
  <2>1. out[w] = NoPath /\ Temp(w)' = Temp(w) /\ disk' = disk
    BY <1>1 DEF CallInv, Temp
  <2> QED
    BY <1>2, <2>1, OwnFacts DEF CallInv, Encoding, Swapping, Busy
<1> QED
  BY <1>2, <1>3, <1>4, <1>5, StemStep DEF FileInvs

LEMMA CopyingKeepsInv ==
  ASSUME PipelineInv, NEW w \in Worker,
         StartCopy(w) \/ CopyDone(w) \/ CopyFails(w) \/ CloseFails(w)
  PROVE  PipelineInv'
<1>1. /\ PipelineTypeOK /\ CallInv(w)
      /\ pc[w] \in {"quarantine", "copying"} /\ pc[w] \in Encoding
      /\ pc[w] # "encoding"
  BY DEF PipelineInv, StartCopy, CopyDone, CopyFails, CloseFails, Encoding, Swapping
<1>2. /\ disk[path[w]] = media[w] /\ disk[Temp(w)] = Enc(media[w].of)
  BY <1>1 DEF CallInv, Swapping
<1>3. /\ media[w] \in Content /\ media[w].of \in Version
      /\ Part(media[w].of) \in Content /\ Part(media[w].of).of = media[w].of
  BY <1>1, OwnFacts, ContentFacts
<1>4. CASE StartCopy(w)
  <2>1. /\ input' = [input EXCEPT ![w] = media[w]]
        /\ vault' = [vault EXCEPT ![path[w]] = Part(media[w].of)]
        /\ pc' = [pc EXCEPT ![w] = "copying"]
        /\ UNCHANGED <<disk, path, media, result, out, cancelled, owed>>
    BY <1>2, <1>4 DEF StartCopy, Goto
  <2>2. /\ pc' \in [Worker -> PC] /\ pc'[w] = "copying"
        /\ input' \in [Worker -> Content \cup {NoFile}] /\ input'[w] = media[w]
        /\ result' \in [Worker -> Outcome]
        /\ \A x \in Worker \ {w} : pc'[x] = pc[x] /\ input'[x] = input[x]
    BY <1>1, <1>3, <2>1 DEF PipelineTypeOK, PC, Encoding, Swapping
  <2> QED
    BY <1>1, <1>2, <1>3, <2>1, <2>2, CopyStep
<1>5. CASE CopyDone(w)
  <2>1. input[w] = media[w]
    BY <1>1, <1>5 DEF CopyDone, CallInv
  <2>2. /\ vault' = [vault EXCEPT ![path[w]] = media[w]]
        /\ pc' = [pc EXCEPT ![w] = "unlink"]
        /\ UNCHANGED <<disk, path, media, input, result, out, cancelled, owed>>
    BY <1>5, <2>1 DEF CopyDone, Goto, callVars
  <2>3. /\ pc' \in [Worker -> PC] /\ pc'[w] = "unlink"
        /\ input' \in [Worker -> Content \cup {NoFile}]
        /\ result' \in [Worker -> Outcome]
        /\ \A x \in Worker \ {w} : pc'[x] = pc[x] /\ input'[x] = input[x]
    BY <1>1, <2>2 DEF PipelineTypeOK, PC, Encoding, Swapping
  <2> QED
    BY <1>1, <1>2, <1>3, <2>2, <2>3, CopyStep
<1>6. CASE CopyFails(w) \/ CloseFails(w)
  <2>1. input[w] = media[w]
    BY <1>1, <1>6 DEF CopyFails, CloseFails, CallInv
  <2>2. PICK c \in {NoFile, media[w], Part(media[w].of)} :
          vault' = [vault EXCEPT ![path[w]] = c]
    BY <1>6, <2>1 DEF CopyFails, CloseFails
  <2>3. /\ pc' = [pc EXCEPT ![w] = "cleanup"]
        /\ result' = [result EXCEPT ![w] = "failed"]
        /\ UNCHANGED <<disk, path, media, input, out, cancelled, owed>>
    BY <1>6 DEF CopyFails, CloseFails, Conclude, Goto
  <2>4. /\ pc' \in [Worker -> PC] /\ pc'[w] = "cleanup"
        /\ input' \in [Worker -> Content \cup {NoFile}]
        /\ result' \in [Worker -> Outcome]
        /\ \A x \in Worker \ {w} : pc'[x] = pc[x] /\ input'[x] = input[x]
    BY <1>1, <2>3 DEF PipelineTypeOK, PC, Encoding, Swapping, Outcome
  <2>5. c \in Content \cup {NoFile} /\ (c # NoFile => c.of = media[w].of)
    BY <1>3
  <2> QED
    BY <1>1, <1>2, <2>2, <2>3, <2>4, <2>5, CopyStep
<1> QED
  BY <1>4, <1>5, <1>6

LEMMA QuarantineKeepsInv ==
  ASSUME PipelineInv, NEW w \in Worker, QuarantineByRename(w) \/ Unlink(w)
  PROVE  PipelineInv'
<1>1. /\ PipelineTypeOK /\ CallInv(w)
      /\ pc[w] \in {"quarantine", "unlink"} /\ pc[w] \in Encoding
  BY DEF PipelineInv, QuarantineByRename, Unlink, Encoding, Swapping
<1>2. /\ disk[path[w]] = media[w] /\ disk[Temp(w)] = Enc(media[w].of)
      /\ out[w] = NoPath
  BY <1>1 DEF CallInv, Swapping
<1>3. /\ disk' = [disk EXCEPT ![path[w]] = NoFile]
      /\ out' = Relinked(path[w], NoPath)
      /\ pc' = [pc EXCEPT ![w] = "install"]
      /\ UNCHANGED <<path, media, input, result, cancelled, owed>>
  BY DEF QuarantineByRename, Unlink, Remove, Goto, callVars
<1>4. /\ path[w] \in Path /\ Temp(w) \in Path /\ Temp(w) # path[w]
      /\ media[w] \in Content
  BY <1>1, OwnFacts
<1>5. /\ vault' \in [Path -> Content \cup {NoFile}]
      /\ vault'[path[w]] = media[w]
      /\ \A p \in Path : p # path[w] => vault'[p] = vault[p]
  <2>1. CASE QuarantineByRename(w)
    <3>1. vault' = [vault EXCEPT ![path[w]] = media[w]]
      BY <1>2, <2>1 DEF QuarantineByRename
    <3> QED
      BY <1>1, <1>4, <3>1 DEF PipelineTypeOK
  <2>2. CASE Unlink(w)
    <3>1. vault[path[w]] = media[w] /\ vault' = vault
      BY <1>1, <2>2 DEF Unlink, CallInv
    <3> QED
      BY <1>1, <3>1 DEF PipelineTypeOK
  <2> QED
    BY <2>1, <2>2
<1>6. /\ FileInvs'
      /\ disk' \in [Path -> Content \cup {NoFile}]
      /\ \A p \in Path : p # path[w] => disk'[p] = disk[p]
  BY <1>1, <1>3, <1>5, LeavesPath
<1>7. /\ \A x \in Worker \ {w} : (out[x] = NoPath \/ out[x].stem # path[w].stem)
                                   => out'[x] = out[x]
      /\ out'[w] = NoPath
  BY <1>2, <1>3, <1>4, RelinkOthers
<1>8. out' \in [Worker -> Path \cup {NoPath}]
  BY <1>1, <1>3 DEF Relinked, PipelineTypeOK
<1>9. PipelineTypeOK'
  BY <1>1, <1>3, <1>5, <1>6, <1>8 DEF PipelineTypeOK, PC, Encoding, Swapping
<1>10. pc'[w] = "install" /\ \A x \in Worker \ {w} : pc'[x] = pc[x]
  BY <1>1, <1>3 DEF PipelineTypeOK
<1>11. OthersKept(w)
  BY <1>3, <1>5, <1>6, <1>7, <1>10 DEF OthersKept
<1>12. CallInv(w)'
  <2>1. Temp(w)' = Temp(w) /\ disk'[Temp(w)] = Enc(media[w].of)
    BY <1>2, <1>3, <1>4, <1>6 DEF Temp
  <2> QED
    BY <1>1, <1>3, <1>5, <1>7, <1>10, <2>1, OwnFacts DEF CallInv, Encoding, Swapping, Busy
<1> QED
  BY <1>1, <1>3, <1>6, <1>9, <1>11, <1>12, StemStep DEF FileInvs

LEMMA InstallKeepsInv ==
  ASSUME StemsDistinct, PipelineInv, NEW w \in Worker, Install(w)
  PROVE  PipelineInv'
<1> DEFINE f == FinalOf(path[w])
<1>1. /\ PipelineTypeOK /\ CallInv(w) /\ pc[w] = "install" /\ pc[w] \in Encoding
      /\ out[w] = NoPath
  BY DEF PipelineInv, Install, Encoding, Swapping, CallInv
<1>2. /\ disk' = [disk EXCEPT ![f] = disk[Temp(w)], ![Temp(w)] = NoFile]
      /\ out' = Relinked(Temp(w), f)
      /\ pc' = [pc EXCEPT ![w] = "cleanup"]
      /\ result' = [result EXCEPT ![w] = "done"]
      /\ UNCHANGED <<vault, path, media, input, cancelled, owed>>
  BY DEF Install, Rename, Conclude, Goto
<1>3. /\ f \in Path /\ f.stem = path[w].stem
      /\ Temp(w) \in Path /\ Temp(w).stem = path[w].stem
      /\ path[w] \in LibPath
  BY <1>1, OwnFacts, PathFacts
<1>4. /\ FileInvs'
      /\ disk' \in [Path -> Content \cup {NoFile}]
      /\ \A p \in Path : (p # Temp(w) /\ p # f) => disk'[p] = disk[p]
  BY <1>1, <1>2, Installs
<1> HIDE DEF f
<1>5. /\ \A x \in Worker \ {w} : (out[x] = NoPath \/ out[x].stem # path[w].stem)
                                   => out'[x] = out[x]
      /\ out'[w] = NoPath
  BY <1>1, <1>2, <1>3, RelinkOthers
<1>6. out' \in [Worker -> Path \cup {NoPath}]
  BY <1>1, <1>2, <1>3 DEF Relinked, PipelineTypeOK
<1>7. PipelineTypeOK'
  BY <1>1, <1>2, <1>4, <1>6 DEF PipelineTypeOK, PC, Encoding, Outcome
<1>8. pc'[w] = "cleanup" /\ \A x \in Worker \ {w} : pc'[x] = pc[x]
  BY <1>1, <1>2 DEF PipelineTypeOK
<1>9. OthersKept(w)
  BY <1>2, <1>3, <1>4, <1>5, <1>8 DEF OthersKept
<1>10. CallInv(w)'
  BY <1>1, <1>2, <1>5, <1>8, OwnFacts DEF CallInv, Encoding, Swapping, Busy
<1> QED
  BY <1>1, <1>2, <1>4, <1>7, <1>9, <1>10, StemStep DEF FileInvs

LEMMA CleanupKeepsInv ==
  ASSUME PipelineInv, NEW w \in Worker, Cleanup(w)
  PROVE  PipelineInv'
<1>1. /\ PipelineTypeOK /\ CallInv(w) /\ pc[w] = "cleanup" /\ pc[w] \in Encoding
      /\ out[w] = NoPath
  BY DEF PipelineInv, Cleanup, Encoding, CallInv
<1>2. /\ pc' = [pc EXCEPT ![w] = "return"]
      /\ UNCHANGED <<vault, path, media, input, result, cancelled, owed>>
  BY DEF Cleanup, Goto, callVars
<1>3. pc'[w] = "return" /\ \A x \in Worker \ {w} : pc'[x] = pc[x]
  BY <1>1, <1>2 DEF PipelineTypeOK
<1>4. CASE UNCHANGED <<disk, out>>
  <2>1. PipelineTypeOK'
    BY <1>1, <1>2, <1>4 DEF PipelineTypeOK, PC
  <2>2. CallInv(w)'
    BY <1>1, <1>2, <1>3, <1>4, OwnFacts DEF CallInv, Encoding, Swapping
  <2> QED
    BY <1>1, <1>2, <1>3, <1>4, <2>1, <2>2, OwnFacts, QuietKeepsInv DEF fileVars
<1>5. CASE Remove(Temp(w))
  <2>1. disk' = [disk EXCEPT ![Temp(w)] = NoFile] /\ out' = Relinked(Temp(w), NoPath)
    BY <1>5 DEF Remove
  <2>2. Temp(w) \in Path /\ Temp(w).stem = path[w].stem
    BY <1>1, OwnFacts
  <2> DEFINE c == NoFile
  <2>3. c \in Content \cup {NoFile} /\ ~IsOriginal(c) /\ disk' = [disk EXCEPT ![Temp(w)] = c]
    BY <2>1 DEF IsOriginal
  <2> HIDE DEF c
  <2>4. /\ FileInvs'
        /\ disk' \in [Path -> Content \cup {NoFile}]
        /\ \A p \in Path : p # Temp(w) => disk'[p] = disk[p]
    BY <1>1, <1>2, <2>3, TempWrite
  <2>5. /\ \A x \in Worker \ {w} : (out[x] = NoPath \/ out[x].stem # path[w].stem)
                                     => out'[x] = out[x]
        /\ out'[w] = NoPath
    BY <1>1, <2>1, <2>2, RelinkOthers
  <2>6. out' \in [Worker -> Path \cup {NoPath}]
    BY <1>1, <2>1 DEF Relinked, PipelineTypeOK
  <2>7. PipelineTypeOK'
    BY <1>1, <1>2, <2>4, <2>6 DEF PipelineTypeOK, PC
  <2>8. OthersKept(w)
    BY <1>2, <1>3, <2>2, <2>4, <2>5 DEF OthersKept
  <2>9. CallInv(w)'
    BY <1>1, <1>2, <1>3, <2>5, OwnFacts DEF CallInv, Encoding, Swapping
  <2> QED
    BY <1>1, <1>2, <2>4, <2>7, <2>8, <2>9, StemStep DEF FileInvs
<1> QED
  BY <1>4, <1>5 DEF Cleanup

-----------------------------------------------------------------------------
(* The specification.                                                        *)

LEMMA PipelineInvInit == PipelineInit => PipelineInv
<1> SUFFICES ASSUME PipelineInit PROVE PipelineInv
  OBVIOUS
<1>1. /\ disk = Initial /\ \A p \in Path : vault[p] = NoFile
      /\ \A w \in Worker : pc[w] = "idle" /\ out[w] = NoPath
      /\ \A o \in owed : o \in LibPath \X Version /\ Initial[o[1]] = Orig(o[2])
  BY DEF PipelineInit
<1>2. Initial \in [Path -> Content \cup {NoFile}]
  BY InitialAssumption, InitialFacts
<1>3. PipelineTypeOK
  BY <1>2 DEF PipelineInit, PipelineTypeOK, PC, Outcome
<1>4. \A w \in Worker : CallInv(w)
  BY <1>1 DEF PipelineInit, CallInv, Busy, Encoding, Swapping, IsOriginal
<1>5. AloneOnStem /\ OneCallPerFilm
  BY <1>1 DEF PipelineInit, AloneOnStem, OneCallPerFilm, Busy, IsOriginal
<1>6. \A p \in LibPath : disk[p] # NoFile => disk[p].gen # "part"
  <2>1. ASSUME NEW p \in LibPath, disk[p] # NoFile PROVE disk[p].gen # "part"
    <3>1. p \in Path
      BY PathFacts
    <3>2. IsOriginal(disk[p])
      BY <1>1, <2>1, <3>1, InitialFacts
    <3> QED
      BY <3>2 DEF IsOriginal
  <2> QED
    BY <2>1
<1> QED
  BY <1>1, <1>3, <1>4, <1>5, <1>6
     DEF PipelineInv, OwedInv, FilesInv, OriginalsKept, BrokenCopyHasOriginal,
         LibraryWhole

LEMMA ProcessStepKeepsInv ==
  ASSUME StemsDistinct, PipelineInv, NEW w \in Worker, ProcessStep(w),
         Probe(w) => OneCallPerFilm'
  PROVE  PipelineInv'
<1>1. CASE Probe(w)
  BY <1>1, ProbeKeepsInv
<1>2. CASE ProbeFails(w)
  <2>1. PipelineTypeOK /\ media' = media /\ path' = path
    BY <1>2 DEF ProbeFails, PipelineInv
  <2>2. OneCallPerFilm'
    BY <2>1 DEF PipelineInv, OneCallPerFilm
  <2> QED
    BY <1>2, <2>2, ProbeKeepsInv
<1>3. CASE \/ EncodeRefused(w) \/ EncodeFails(w) \/ VerifyFails(w) \/ NotSmaller(w)
           \/ QuarantineFails(w) \/ UnlinkFails(w) \/ InstallFails(w)
  BY <1>3, GivingUpKeepsInv
<1>4. CASE StartEncode(w) \/ EncodeDone(w) \/ Verified(w)
  BY <1>4, StartEncodeKeepsInv, EncodeDoneKeepsInv, VerifiedKeepsInv
<1>5. CASE QuarantineByRename(w) \/ Unlink(w)
  BY <1>5, QuarantineKeepsInv
<1>6. CASE StartCopy(w) \/ CopyDone(w) \/ CopyFails(w) \/ CloseFails(w)
  BY <1>6, CopyingKeepsInv
<1>7. CASE Install(w) \/ Cleanup(w)
  BY <1>7, InstallKeepsInv, CleanupKeepsInv
<1> QED
  BY <1>1, <1>2, <1>3, <1>4, <1>5, <1>6, <1>7 DEF ProcessStep

\* Whoever calls ProcessFile: the invariant is kept when a probe keeps the
\* originals in one call's hands each.
LEMMA PipelineInvNext ==
  ASSUME StemsDistinct, PipelineInv, [PipelineNext]_pipelineVars,
         \A w \in Worker : Probe(w) => OneCallPerFilm'
  PROVE  PipelineInv'
<1>1. ASSUME NEW w \in Worker, NEW p \in Path, Begin(w, p) PROVE PipelineInv'
  BY <1>1, BeginKeepsInv
<1>2. ASSUME NEW w \in Worker, ProcessStep(w) PROVE PipelineInv'
  BY <1>2, ProcessStepKeepsInv
<1>3. ASSUME NEW w \in Worker, Finish(w) \/ Crash(w) PROVE PipelineInv'
  BY <1>3, LeavingKeepsInv
<1>4. CASE Cancel \/ UNCHANGED pipelineVars
  <2>1. cancelled' \in BOOLEAN /\ UNCHANGED <<fileVars, pc, callVars, out, owed>>
    BY <1>4 DEF Cancel, pipelineVars, PipelineInv, PipelineTypeOK
  <2> QED
    BY <2>1, ContextKeepsInv
<1> QED
  BY <1>1, <1>2, <1>3, <1>4 DEF PipelineNext

LEMMA ExclusiveInvNext ==
  ASSUME Exclusive, StemsDistinct, PipelineInv, [PipelineNext]_pipelineVars
  PROVE  PipelineInv'
BY ExclusiveProbe, PipelineInvNext

\* The invariant holds in every run: for any library without two files of one
\* stem, when each stem is one worker's at a time and nobody else changes the
\* library meanwhile; any call may fail and any process may die.
THEOREM PipelineInvariance ==
  ASSUME Exclusive, StemsDistinct
  PROVE  PipelineSpec => []PipelineInv
<1>1. PipelineInv /\ [PipelineNext]_pipelineVars => PipelineInv'
  BY ExclusiveInvNext
<1> QED
  BY <1>1, PipelineInvInit, PTL DEF PipelineSpec

\* The types (pipeline.go:54-102).
THEOREM PipelineTypeCorrect ==
  ASSUME Exclusive, StemsDistinct
  PROVE  PipelineSpec => []PipelineTypeOK
<1>1. PipelineInv => PipelineTypeOK
  BY DEF PipelineInv
<1> QED
  BY <1>1, PipelineInvariance, PTL

\* Every original of the library is, at every moment, at its path or in the
\* quarantine under its path (README.md:31, pipeline.go:46-102, 180-215).
THEOREM OriginalsAreKept ==
  ASSUME Exclusive, StemsDistinct
  PROVE  PipelineSpec => []OriginalsKept
<1>1. PipelineInv => OriginalsKept
  BY DEF PipelineInv
<1> QED
  BY <1>1, PipelineInvariance, PTL

\* A broken copy in the quarantine still has its original in the library, and
\* nothing half-written has a library name (pipeline.go:65, 193-215).
THEOREM BrokenCopiesHaveOriginals ==
  ASSUME Exclusive, StemsDistinct
  PROVE  PipelineSpec => [](BrokenCopyHasOriginal /\ LibraryWhole)
<1>1. PipelineInv => BrokenCopyHasOriginal /\ LibraryWhole
  BY DEF PipelineInv
<1> QED
  BY <1>1, PipelineInvariance, PTL

\* An original leaves its path only when a verified encode of that very file is
\* ready to replace it (README.md:31-33, pipeline.go:76-92).
THEOREM SwapsAreVerified ==
  ASSUME Exclusive, StemsDistinct
  PROVE  PipelineSpec => []SwapVerified
<1>1. PipelineInv => SwapVerified
  <2> SUFFICES ASSUME PipelineInv, NEW w \in Worker, pc[w] = "install"
               PROVE  disk[Temp(w)] # NoFile /\ disk[Temp(w)] = Enc(vault[path[w]].of)
    BY DEF SwapVerified
  <2>1. disk[Temp(w)] = Enc(media[w].of) /\ vault[path[w]] = media[w]
    BY DEF PipelineInv, CallInv, Swapping
  <2>2. media[w].of \in Version
    BY OwnFacts DEF Encoding, Swapping
  <2> QED
    BY <2>1, <2>2, ContentFacts
<1> QED
  BY <1>1, PipelineInvariance, PTL

-----------------------------------------------------------------------------
(* The pipeline implements SafeReplace.                                      *)

\* A film of the library: its original has one name and nothing else its stem.
LEMMA FilmFacts ==
  ASSUME StemsDistinct, NEW p \in Films
  PROVE  /\ p \in LibPath /\ p \in Path /\ FinalOf(p) \in LibPath /\ FinalOf(p) \in Path
         /\ Initial[p] \in Content /\ Initial[p].of \in Version
         /\ Initial[p] = Orig(Initial[p].of) /\ Initial[p] # NoFile
         /\ Initial[p] # Enc(Initial[p].of) /\ Initial[p] # Part(Initial[p].of)
         /\ \A q \in LibPath : (q.stem = p.stem /\ Initial[q] # NoFile) => q = p
<1>1. p \in LibPath /\ IsOriginal(Initial[p])
  BY DEF Films
<1>2. p \in Path /\ FinalOf(p) \in LibPath /\ FinalOf(p) \in Path
  BY <1>1, PathFacts
<1>3. Initial[p] \in Content \cup {NoFile}
  BY <1>2, InitialFacts
<1>4. /\ Initial[p] \in Content /\ Initial[p].of \in Version
      /\ Initial[p] = Orig(Initial[p].of) /\ Initial[p] # NoFile
  BY <1>1, <1>3, OriginalIsOrig
<1>5. Initial[p] # Enc(Initial[p].of) /\ Initial[p] # Part(Initial[p].of)
  BY <1>1, <1>4, ContentFacts
<1> QED
  BY <1>1, <1>2, <1>4, <1>5 DEF StemsDistinct

-----------------------------------------------------------------------------
(* The invariant: what else a step relies on.                                *)

\* Each film is owed; while it is in place its encode is not, and it is not in
\* place any more when the encode is to take it.
FilmsOwed       == \A p \in Films : <<p, Initial[p].of>> \in owed
NotYetReplaced  == \A p \in Films : disk[p] = Initial[p] => disk[FinalOf(p)] # Enc(Initial[p].of)
GoneAtInstall   == \A w \in Worker : pc[w] = "install" => disk[path[w]] # Initial[path[w]]

ReplaceInv == /\ PipelineInv
              /\ FilmsOwed
              /\ NotYetReplaced
              /\ GoneAtInstall
              /\ NoEncodeInVault

LEMMA FilmKept ==
  ASSUME StemsDistinct, PipelineInv, FilmsOwed, NEW p \in Films
  PROVE  disk[p] = Initial[p] \/ vault[p] = Initial[p]
<1>1. <<p, Initial[p].of>> \in owed /\ Initial[p] = Orig(Initial[p].of)
  BY FilmFacts DEF FilmsOwed
<1> QED
  BY <1>1 DEF PipelineInv, OriginalsKept

-----------------------------------------------------------------------------
(* What a step does to the files of the library and the quarantine.          *)

Elsewhere(w) == \A p \in Path \ {path[w]} : vault'[p] = vault[p] /\ disk'[p] = disk[p]

\* Nothing but a temp file, if that; the original goes, or is copied, to the
\* quarantine; the encode takes its name.
Aside(w)    == vault' = vault /\ \A p \in LibPath : disk'[p] = disk[p]
Moves(w)    == /\ Elsewhere(w)
               /\ disk[path[w]] = media[w]
               /\ vault'[path[w]] = media[w] /\ disk'[path[w]] = NoFile
Copies(w)   == /\ Elsewhere(w)
               /\ disk[path[w]] = media[w] /\ disk'[path[w]] = media[w]
               /\ vault'[path[w]] \in {NoFile, media[w], Part(media[w].of)}
Replaces(w) == /\ pc[w] = "install"
               /\ vault' = vault
               /\ disk'[FinalOf(path[w])] = Enc(media[w].of)
               /\ \A p \in LibPath \ {FinalOf(path[w])} : disk'[p] = disk[p]

\* Of the others, and of what w itself will do next.
Alone(w) == /\ pc[w] \in Encoding
            /\ owed' = owed
            /\ \A x \in Worker \ {w} : pc'[x] = pc[x] /\ path'[x] = path[x]
            /\ path'[w] = path[w]

Quiet == /\ UNCHANGED <<disk, vault, owed>>
         /\ \A w \in Worker : pc'[w] = "install" => pc[w] = "install" /\ path'[w] = path[w]

FileStep(w) == /\ Alone(w)
               /\ \/ pc'[w] # "install" /\ (Aside(w) \/ Copies(w) \/ Replaces(w))
                  \/ Moves(w)

\* A step that does nothing to the files, or one of the four things above.
FilesStep == Quiet \/ \E w \in Worker : FileStep(w)

LEMMA TempSteps ==
  ASSUME PipelineInv, NEW w \in Worker, StartEncode(w) \/ EncodeDone(w) \/ Cleanup(w)
  PROVE  FileStep(w)
<1>1. /\ PipelineTypeOK /\ CallInv(w) /\ pc[w] \in Encoding
  BY DEF PipelineInv, StartEncode, EncodeDone, Cleanup, Encoding
<1>2. Temp(w) \in Path /\ Temp(w) \notin LibPath
  BY <1>1, OwnFacts
<1>3. \A p \in LibPath : p \in Path
  BY PathFacts
<1>4. /\ \E l \in {"encoding", "verify", "return"} : pc' = [pc EXCEPT ![w] = l]
      /\ UNCHANGED <<vault, path, owed>>
  BY DEF StartEncode, EncodeDone, Cleanup, Goto, callVars
<1>5. Alone(w) /\ pc'[w] # "install"
  BY <1>1, <1>4 DEF Alone, PipelineTypeOK
<1>6. \/ disk' = disk
      \/ \E c : disk' = [disk EXCEPT ![Temp(w)] = c]
  <2>1. CASE StartEncode(w)
    BY <2>1 DEF StartEncode
  <2>2. CASE EncodeDone(w)
    <3>1. out[w] = Temp(w)
      BY <1>1, <2>2 DEF EncodeDone, CallInv
    <3>2. disk' = disk \/ \E c : disk' = [disk EXCEPT ![out[w]] = c]
      BY <2>2 DEF EncodeDone
    <3> QED
      BY <3>1, <3>2
  <2>3. CASE Cleanup(w)
    BY <2>3 DEF Cleanup, Remove
  <2> QED
    BY <2>1, <2>2, <2>3
<1>7. \A p \in LibPath : disk'[p] = disk[p]
  BY <1>1, <1>2, <1>3, <1>6 DEF PipelineTypeOK
<1> QED
  BY <1>4, <1>5, <1>7 DEF FileStep, Aside

LEMMA MoveSteps ==
  ASSUME PipelineInv, NEW w \in Worker, QuarantineByRename(w) \/ Unlink(w)
  PROVE  FileStep(w)
<1>1. /\ PipelineTypeOK /\ CallInv(w)
      /\ pc[w] \in {"quarantine", "unlink"} /\ pc[w] \in Encoding
  BY DEF PipelineInv, QuarantineByRename, Unlink, Encoding, Swapping
<1>2. disk[path[w]] = media[w] /\ path[w] \in Path
  BY <1>1, OwnFacts DEF CallInv
<1>3. /\ disk' = [disk EXCEPT ![path[w]] = NoFile]
      /\ pc' = [pc EXCEPT ![w] = "install"]
      /\ UNCHANGED <<path, owed>>
  BY DEF QuarantineByRename, Unlink, Remove, Goto, callVars
<1>4. vault'[path[w]] = media[w] /\ \A p \in Path \ {path[w]} : vault'[p] = vault[p]
  <2>1. CASE QuarantineByRename(w)
    <3>1. vault' = [vault EXCEPT ![path[w]] = media[w]]
      BY <1>2, <2>1 DEF QuarantineByRename
    <3> QED
      BY <1>1, <1>2, <3>1 DEF PipelineTypeOK
  <2>2. CASE Unlink(w)
    BY <1>1, <2>2 DEF Unlink, CallInv
  <2> QED
    BY <2>1, <2>2
<1>5. Moves(w)
  BY <1>1, <1>2, <1>3, <1>4 DEF Moves, Elsewhere, PipelineTypeOK
<1>6. Alone(w)
  BY <1>1, <1>3 DEF Alone, PipelineTypeOK
<1> QED
  BY <1>5, <1>6 DEF FileStep

LEMMA CopySteps ==
  ASSUME PipelineInv, NEW w \in Worker,
         StartCopy(w) \/ CopyDone(w) \/ CopyFails(w) \/ CloseFails(w)
  PROVE  FileStep(w)
<1>1. /\ PipelineTypeOK /\ CallInv(w)
      /\ pc[w] \in {"quarantine", "copying"} /\ pc[w] \in Encoding
  BY DEF PipelineInv, StartCopy, CopyDone, CopyFails, CloseFails, Encoding, Swapping
<1>2. /\ disk[path[w]] = media[w] /\ path[w] \in Path
      /\ pc[w] = "copying" => input[w] = media[w]
  BY <1>1, OwnFacts DEF CallInv
<1>3. /\ \E l \in {"copying", "unlink", "cleanup"} : pc' = [pc EXCEPT ![w] = l]
      /\ UNCHANGED <<disk, path, owed>>
  BY DEF StartCopy, CopyDone, CopyFails, CloseFails, Goto, Conclude, callVars
<1>4. \E c \in {NoFile, media[w], Part(media[w].of)} : vault' = [vault EXCEPT ![path[w]] = c]
  <2>1. CASE StartCopy(w)
    BY <1>2, <2>1 DEF StartCopy
  <2>2. CASE CopyDone(w) \/ CopyFails(w) \/ CloseFails(w)
    <3>1. pc[w] = "copying"
      BY <2>2 DEF CopyDone, CopyFails, CloseFails
    <3> QED
      BY <1>2, <2>2, <3>1 DEF CopyDone, CopyFails, CloseFails
  <2> QED
    BY <2>1, <2>2
<1>5. Copies(w)
  BY <1>1, <1>2, <1>3, <1>4 DEF Copies, Elsewhere, PipelineTypeOK
<1>6. Alone(w) /\ pc'[w] # "install"
  BY <1>1, <1>3 DEF Alone, PipelineTypeOK
<1> QED
  BY <1>5, <1>6 DEF FileStep

LEMMA InstallStep ==
  ASSUME PipelineInv, NEW w \in Worker, Install(w)
  PROVE  FileStep(w)
<1>1. /\ PipelineTypeOK /\ CallInv(w) /\ pc[w] = "install" /\ pc[w] \in Encoding
  BY DEF PipelineInv, Install, Encoding, Swapping
<1>2. disk[Temp(w)] = Enc(media[w].of)
  BY <1>1 DEF CallInv, Swapping
<1> DEFINE f == FinalOf(path[w])
<1>3. /\ disk' = [disk EXCEPT ![f] = disk[Temp(w)], ![Temp(w)] = NoFile]
      /\ pc' = [pc EXCEPT ![w] = "cleanup"]
      /\ UNCHANGED <<vault, path, owed>>
  BY DEF Install, Rename, Conclude, Goto
<1>4. /\ f \in Path /\ f \in LibPath /\ Temp(w) \in Path /\ Temp(w) \notin LibPath
      /\ \A p \in LibPath : p \in Path
  BY <1>1, OwnFacts, PathFacts
<1>5. disk'[f] = Enc(media[w].of) /\ \A p \in LibPath \ {f} : disk'[p] = disk[p]
  <2> HIDE DEF f
  <2> QED
    BY <1>1, <1>2, <1>3, <1>4 DEF PipelineTypeOK
<1>6. Alone(w) /\ pc'[w] # "install"
  <2> HIDE DEF f
  <2> QED
    BY <1>1, <1>3 DEF Alone, PipelineTypeOK
<1> QED
  BY <1>1, <1>3, <1>5, <1>6 DEF FileStep, Replaces

\* Every step is quiet or one of these.
LEMMA StepsOnFiles ==
  ASSUME PipelineInv, [PipelineNext]_pipelineVars
  PROVE  FilesStep
<1>0. PipelineTypeOK
  BY DEF PipelineInv
<1>1. ASSUME NEW w \in Worker, NEW p \in Path, Begin(w, p) PROVE Quiet
  BY <1>0, <1>1 DEF Begin, Goto, Quiet, fileVars, PipelineTypeOK
<1>2. ASSUME NEW w \in Worker, Finish(w) \/ Crash(w) PROVE Quiet
  <2>1. pc' = [pc EXCEPT ![w] = "idle"] /\ path' = [path EXCEPT ![w] = NoPath]
        /\ UNCHANGED <<disk, vault, owed>>
    BY <1>2 DEF Finish, Crash, Goto, Forget, fileVars
  <2> QED
    BY <1>0, <2>1 DEF Quiet, PipelineTypeOK
<1>3. ASSUME NEW w \in Worker, ProcessStep(w) PROVE Quiet \/ FileStep(w)
  <2>1. CASE \/ ProbeFails(w) \/ Probe(w)
             \/ EncodeRefused(w) \/ EncodeFails(w) \/ VerifyFails(w) \/ NotSmaller(w)
             \/ Verified(w) \/ QuarantineFails(w) \/ UnlinkFails(w) \/ InstallFails(w)
    <3>1. /\ \E l \in {"return", "encode", "cleanup", "quarantine"} :
               pc' = [pc EXCEPT ![w] = l]
          /\ UNCHANGED <<disk, vault, path, owed>>
      BY <2>1 DEF ProbeFails, Probe, EncodeRefused, EncodeFails, VerifyFails, NotSmaller,
                  Verified, QuarantineFails, UnlinkFails, InstallFails, Return, Conclude,
                  Goto, fileVars, callVars
    <3> QED
      BY <1>0, <3>1 DEF Quiet, PipelineTypeOK
  <2>2. CASE StartEncode(w) \/ EncodeDone(w) \/ Cleanup(w)
    BY <2>2, TempSteps
  <2>3. CASE QuarantineByRename(w) \/ Unlink(w)
    BY <2>3, MoveSteps
  <2>4. CASE StartCopy(w) \/ CopyDone(w) \/ CopyFails(w) \/ CloseFails(w)
    BY <2>4, CopySteps
  <2>5. CASE Install(w)
    BY <2>5, InstallStep
  <2> QED
    BY <1>3, <2>1, <2>2, <2>3, <2>4, <2>5 DEF ProcessStep
<1>4. ASSUME Cancel PROVE Quiet
  BY <1>4 DEF Cancel, Quiet, fileVars, callVars
<1>5. ASSUME UNCHANGED pipelineVars PROVE Quiet
  BY <1>5 DEF pipelineVars, fileVars, callVars, Quiet
<1> QED
  BY <1>1, <1>2, <1>3, <1>4, <1>5 DEF PipelineNext, FilesStep

-----------------------------------------------------------------------------
(* The invariant is inductive.                                               *)

LEMMA ReplaceInvInit == StemsDistinct /\ PipelineInit => ReplaceInv
<1> SUFFICES ASSUME StemsDistinct, PipelineInit PROVE ReplaceInv
  OBVIOUS
<1>1. /\ disk = Initial /\ vault = [p \in Path |-> NoFile]
      /\ \A w \in Worker : pc[w] = "idle"
      /\ owed = {o \in LibPath \X Version : Initial[o[1]] = Orig(o[2])}
  BY DEF PipelineInit
<1>2. FilmsOwed
  BY <1>1, FilmFacts DEF FilmsOwed
<1>3. NotYetReplaced
  <2>1. ASSUME NEW p \in Films PROVE disk[FinalOf(p)] # Enc(Initial[p].of)
    <3>1. /\ Initial[p].of \in Version /\ FinalOf(p) \in Path
      BY <2>1, FilmFacts
    <3>2. Initial[FinalOf(p)] # NoFile => IsOriginal(Initial[FinalOf(p)])
      BY <3>1, InitialFacts
    <3> QED
      BY <1>1, <3>1, <3>2, ContentFacts
  <2> QED
    BY <2>1 DEF NotYetReplaced
<1>4. GoneAtInstall /\ NoEncodeInVault
  BY <1>1 DEF GoneAtInstall, NoEncodeInVault
<1> QED
  BY <1>2, <1>3, <1>4, PipelineInvInit DEF ReplaceInv

\* A quiet step.
LEMMA QuietKeepsReplaceInv ==
  ASSUME ReplaceInv, PipelineInv', Quiet
  PROVE  ReplaceInv'
BY DEF ReplaceInv, Quiet, FilmsOwed, NotYetReplaced, GoneAtInstall, NoEncodeInVault

\* What w's step has to do with the film on its path, and with any other.
LEMMA OwnFilm ==
  ASSUME StemsDistinct, ReplaceInv, NEW w \in Worker, pc[w] \in Encoding
  PROVE  /\ path[w] \in Films /\ media[w] = Initial[path[w]]
         /\ media[w] # NoFile /\ media[w].gen = "orig"
         /\ \A q \in Films \ {path[w]} : /\ q # FinalOf(path[w])
                                         /\ FinalOf(q) # FinalOf(path[w])
                                         /\ FinalOf(q) # path[w]
<1>1. /\ path[w] \in LibPath /\ media[w] = Initial[path[w]]
      /\ media[w] # NoFile /\ IsOriginal(media[w])
  BY OwnFacts DEF ReplaceInv
<1>2. path[w] \in Films
  BY <1>1 DEF Films
<1>3. ASSUME NEW q \in Films, q # path[w] PROVE q.stem # path[w].stem
  BY <1>1, <1>2, <1>3, FilmFacts
<1>4. ASSUME NEW q \in Films PROVE FinalOf(q).stem = q.stem
  BY <1>4, FilmFacts, PathFacts
<1> QED
  BY <1>1, <1>2, <1>3, <1>4 DEF IsOriginal

LEMMA FileStepKeepsReplaceInv ==
  ASSUME StemsDistinct, ReplaceInv, PipelineInv', NEW w \in Worker, FileStep(w)
  PROVE  ReplaceInv'
<1>1. /\ PipelineInv /\ Alone(w) /\ pc[w] \in Encoding
      /\ NoEncodeInVault /\ NotYetReplaced /\ GoneAtInstall /\ FilmsOwed
  BY DEF FileStep, Alone, ReplaceInv
<1>2. /\ path[w] \in Films /\ path[w] \in LibPath /\ path[w] \in Path
      /\ media[w] = Initial[path[w]] /\ media[w] # NoFile /\ media[w].gen = "orig"
      /\ media[w].of \in Version
      /\ FinalOf(path[w]).stem = path[w].stem /\ FinalOf(path[w]) \in LibPath
  BY <1>1, OwnFilm, OwnFacts, PathFacts
<1>3. \A p \in LibPath : p \in Path
  BY PathFacts
<1>4. FilmsOwed'
  BY <1>1 DEF Alone, FilmsOwed
<1>5. NotYetReplaced'
  <2> SUFFICES ASSUME NEW p \in Films, disk'[p] = Initial[p]
               PROVE  disk'[FinalOf(p)] # Enc(Initial[p].of)
    BY DEF NotYetReplaced
  <2>1. /\ p \in LibPath /\ p \in Path /\ FinalOf(p) \in LibPath /\ FinalOf(p) \in Path
        /\ Initial[p] # NoFile /\ IsOriginal(Initial[p]) /\ Initial[p].of \in Version
    BY FilmFacts DEF Films
  <2>2. Enc(Initial[p].of) # NoFile
    BY <2>1, ContentFacts
  <2>3. CASE Aside(w)
    BY <1>1, <2>1, <2>3 DEF Aside, NotYetReplaced
  <2>4. CASE Copies(w)
    BY <1>1, <2>1, <2>4 DEF Copies, Elsewhere, NotYetReplaced
  <2>5. CASE Moves(w)
    BY <1>1, <2>1, <2>2, <2>5 DEF Moves, Elsewhere, NotYetReplaced
  <2>6. CASE Replaces(w)
    <3>1. p # path[w]
      <4>1. SUFFICES ASSUME p = path[w] PROVE FALSE
        OBVIOUS
      <4>2. disk[p] # Initial[p]
        BY <1>1, <2>6, <4>1 DEF Replaces, GoneAtInstall
      <4>3. p = FinalOf(p)
        BY <2>1, <2>6, <4>1, <4>2 DEF Replaces
      <4> QED
        BY <1>2, <2>1, <2>6, <4>1, <4>3, ContentFacts DEF Replaces
    <3>2. p # FinalOf(path[w]) /\ FinalOf(p) # FinalOf(path[w])
      BY <1>1, <3>1, OwnFilm
    <3> QED
      BY <1>1, <2>1, <2>6, <3>2 DEF Replaces, NotYetReplaced
  <2> QED
    BY <2>3, <2>4, <2>5, <2>6 DEF FileStep
<1>6. GoneAtInstall'
  <2> SUFFICES ASSUME NEW x \in Worker, pc'[x] = "install"
               PROVE  disk'[path'[x]] # Initial[path'[x]]
    BY DEF GoneAtInstall
  <2>1. CASE x = w
    BY <1>1, <1>2, <2>1 DEF FileStep, Moves, Alone
  <2>2. CASE x # w
    <3>1. pc[x] = "install" /\ path'[x] = path[x]
      BY <1>1, <2>2 DEF Alone
    <3>2. /\ path[x] \in LibPath /\ path[x] \in Path
          /\ IsOriginal(media[x]) /\ IsOriginal(media[w])
      BY <1>1, <3>1, OwnFacts DEF Encoding, Swapping
    <3>3. path[x].stem # path[w].stem
      BY <1>1, <2>2, <3>2 DEF PipelineInv, OneCallPerFilm
    <3>4. disk'[path[x]] = disk[path[x]]
      BY <1>2, <3>2, <3>3 DEF FileStep, Aside, Copies, Moves, Elsewhere, Replaces
    <3> QED
      BY <1>1, <3>1, <3>4 DEF GoneAtInstall
  <2> QED
    BY <2>1, <2>2
<1>7. NoEncodeInVault'
  <2>1. Part(media[w].of).gen # "enc"
    BY DEF Part
  <2>2. ASSUME NEW p \in Path, p # path[w] PROVE vault'[p] = vault[p]
    BY <2>2 DEF FileStep, Aside, Copies, Moves, Elsewhere, Replaces
  <2>3. vault'[path[w]] \in {vault[path[w]], NoFile, media[w], Part(media[w].of)}
    BY DEF FileStep, Aside, Copies, Moves, Replaces
  <2> QED
    BY <1>1, <1>2, <2>1, <2>2, <2>3 DEF NoEncodeInVault
<1> QED
  BY <1>4, <1>5, <1>6, <1>7 DEF ReplaceInv

LEMMA ReplaceInvNext ==
  ASSUME StemsDistinct, ReplaceInv, PipelineInv', FilesStep
  PROVE  ReplaceInv'
BY QuietKeepsReplaceInv, FileStepKeepsReplaceInv DEF FilesStep

-----------------------------------------------------------------------------
(* The refinement.                                                           *)

\* The stages, one by one.
LEMMA StageFacts ==
  ASSUME NEW p \in Films
  PROVE  /\ StageOf[p] = "original" <=> disk[p] = Initial[p] /\ vault[p] # Initial[p]
         /\ StageOf[p] = "copied" <=> disk[p] = Initial[p] /\ vault[p] = Initial[p]
         /\ StageOf[p] = "moved" <=> /\ disk[p] # Initial[p] /\ vault[p] = Initial[p]
                                     /\ disk[FinalOf(p)] # Enc(Initial[p].of)
         /\ StageOf[p] = "replaced" <=> /\ disk[p] # Initial[p] /\ vault[p] = Initial[p]
                                        /\ disk[FinalOf(p)] = Enc(Initial[p].of)
BY DEF StageOf

\* A film whose files did not change keeps its stage.
LEMMA StageKept ==
  ASSUME NEW p \in Films, disk'[p] = disk[p], vault'[p] = vault[p],
         disk'[FinalOf(p)] = disk[FinalOf(p)]
  PROVE  StageOf'[p] = StageOf[p]
BY DEF StageOf

LEMMA FileStepOfOthers ==
  ASSUME StemsDistinct, ReplaceInv, NEW w \in Worker, FileStep(w),
         NEW q \in Films, q # path[w]
  PROVE  StageOf'[q] = StageOf[q]
<1>1. pc[w] \in Encoding
  BY DEF FileStep, Alone
<1>2. /\ q \in LibPath /\ q \in Path /\ FinalOf(q) \in LibPath /\ FinalOf(q) \in Path
      /\ q # FinalOf(path[w]) /\ FinalOf(q) # FinalOf(path[w]) /\ FinalOf(q) # path[w]
  BY <1>1, OwnFilm, FilmFacts
<1>3. /\ disk'[q] = disk[q] /\ vault'[q] = vault[q]
      /\ disk'[FinalOf(q)] = disk[FinalOf(q)]
  BY <1>2 DEF FileStep, Aside, Copies, Moves, Elsewhere, Replaces
<1> QED
  BY <1>3, StageKept

LEMMA FileStepOfOwn ==
  ASSUME StemsDistinct, ReplaceInv, NEW w \in Worker, FileStep(w)
  PROVE  \/ StageOf'[path[w]] = StageOf[path[w]]
         \/ <<StageOf[path[w]], StageOf'[path[w]]>> \in Safe!Progress
<1> DEFINE p == path[w]
           f == FinalOf(p)
<1>1. /\ PipelineInv /\ pc[w] \in Encoding /\ NotYetReplaced /\ GoneAtInstall
  BY DEF FileStep, Alone, ReplaceInv
<1>2. /\ p \in Films /\ media[w] = Initial[p] /\ media[w] # NoFile
      /\ p \in LibPath /\ p \in Path /\ f \in LibPath /\ f \in Path
      /\ Initial[p].of \in Version /\ Initial[p] # Enc(Initial[p].of)
      /\ Enc(Initial[p].of) # NoFile
  <2>1. p \in Films /\ media[w] = Initial[p] /\ media[w] # NoFile
    BY <1>1, OwnFilm
  <2> QED
    BY <2>1, FilmFacts, ContentFacts
<1> HIDE DEF p, f
<1>3. CASE Aside(w)
  BY <1>2, <1>3, StageKept DEF Aside, p, f
<1>4. CASE Copies(w)
  <2>1. disk[p] = Initial[p] /\ disk'[p] = Initial[p]
    BY <1>2, <1>4 DEF Copies, p
  <2>2. StageOf[p] \in {"original", "copied"} /\ StageOf'[p] \in {"original", "copied"}
    BY <1>2, <2>1 DEF StageOf
  <2> QED
    BY <2>2 DEF Safe!Progress, p
<1>5. CASE Moves(w)
  <2>1. /\ disk[p] = Initial[p] /\ disk'[p] = NoFile /\ vault'[p] = Initial[p]
        /\ f # p => disk'[f] = disk[f]
    BY <1>2, <1>5 DEF Moves, Elsewhere, p
  <2>2. disk[f] # Enc(Initial[p].of)
    BY <1>1, <1>2, <2>1 DEF NotYetReplaced, f
  <2>3. disk'[f] # Enc(Initial[p].of)
    BY <1>2, <2>1, <2>2
  <2>4. StageOf[p] \in {"original", "copied"}
    BY <1>2, <2>1 DEF StageOf
  <2>5. StageOf'[p] = "moved"
    BY <1>2, <2>1, <2>3 DEF StageOf, f
  <2> QED
    BY <2>4, <2>5 DEF Safe!Progress, p
<1>6. CASE Replaces(w)
  <2>1. /\ disk[p] # Initial[p] /\ vault[p] = Initial[p]
    BY <1>1, <1>2, <1>6 DEF Replaces, GoneAtInstall, PipelineInv, CallInv, p
  <2>2. /\ vault'[p] = Initial[p] /\ disk'[f] = Enc(Initial[p].of)
        /\ p # f => disk'[p] = disk[p]
    BY <1>2, <1>6, <2>1 DEF Replaces, p, f
  <2>3. disk'[p] # Initial[p]
    BY <1>2, <2>1, <2>2
  <2>4. StageOf[p] \in {"moved", "replaced"}
    BY <1>2, <2>1 DEF StageOf
  <2>5. StageOf'[p] = "replaced"
    BY <1>2, <2>2, <2>3 DEF StageOf, f
  <2> QED
    BY <2>4, <2>5 DEF Safe!Progress, p
<1> QED
  BY <1>3, <1>4, <1>5, <1>6 DEF FileStep, p

LEMMA StageStep ==
  ASSUME StemsDistinct, ReplaceInv, FilesStep
  PROVE  [Safe!SafeNext]_StageOf
<1>1. StageOf = [q \in Films |-> StageOf[q]] /\ StageOf' = [q \in Films |-> StageOf'[q]]
  BY DEF StageOf
<1>2. ASSUME Quiet PROVE StageOf' = StageOf
  BY <1>2 DEF Quiet, StageOf
<1>3. ASSUME NEW w \in Worker, FileStep(w) PROVE [Safe!SafeNext]_StageOf
  <2>1. pc[w] \in Encoding
    BY <1>3 DEF FileStep, Alone
  <2>2. path[w] \in Films
    BY <2>1, OwnFilm
  <2>3. \A q \in Films : q # path[w] => StageOf'[q] = StageOf[q]
    BY <1>3, FileStepOfOthers
  <2>4. StageOf' = [StageOf EXCEPT ![path[w]] = StageOf'[path[w]]]
    BY <1>1, <2>2, <2>3
  <2>5. CASE StageOf'[path[w]] = StageOf[path[w]]
    BY <1>1, <2>4, <2>5
  <2>6. CASE <<StageOf[path[w]], StageOf'[path[w]]>> \in Safe!Progress
    BY <2>2, <2>4, <2>6 DEF Safe!SafeNext
  <2> QED
    BY <1>3, <2>5, <2>6, FileStepOfOwn
<1> QED
  BY <1>2, <1>3 DEF FilesStep

\* Of the initial state.
LEMMA StageInit == StemsDistinct /\ PipelineInit => Safe!SafeInit
<1> SUFFICES ASSUME StemsDistinct, PipelineInit
             PROVE  StageOf = [q \in Films |-> "original"]
  BY DEF Safe!SafeInit
<1>1. \A q \in Films : StageOf[q] = "original"
  <2>1. ASSUME NEW q \in Films PROVE disk[q] = Initial[q] /\ vault[q] # Initial[q]
    BY <2>1, FilmFacts DEF PipelineInit
  <2> QED
    BY <2>1, StageFacts
<1>2. StageOf = [q \in Films |-> StageOf[q]]
  BY DEF StageOf
<1> QED
  BY <1>1, <1>2

-----------------------------------------------------------------------------
\* The strengthened invariant holds in every run.
LEMMA ReplaceInvariance ==
  ASSUME Exclusive, StemsDistinct
  PROVE  PipelineSpec => []ReplaceInv
<1>1. ReplaceInv /\ [PipelineNext]_pipelineVars => ReplaceInv'
  <2> SUFFICES ASSUME ReplaceInv, [PipelineNext]_pipelineVars PROVE ReplaceInv'
    OBVIOUS
  <2>1. PipelineInv
    BY DEF ReplaceInv
  <2> QED
    BY <2>1, ExclusiveInvNext, StepsOnFiles, ReplaceInvNext
<1>2. PipelineInit => ReplaceInv
  BY ReplaceInvInit
<1> QED
  BY <1>1, <1>2, PTL DEF PipelineSpec

\* No encode of mtx's own ever enters the quarantine, where it could take the
\* place of the original kept there: what mtx wrote is not worth another encode,
\* and what is moved is what was probed (pipeline.go:60, 84; policy.go:39).
THEOREM QuarantineHoldsNoEncode ==
  ASSUME Exclusive, StemsDistinct
  PROVE  PipelineSpec => []NoEncodeInVault
<1>1. ReplaceInv => NoEncodeInVault
  BY DEF ReplaceInv
<1> QED
  BY <1>1, ReplaceInvariance, PTL

\* The pipeline implements SafeReplace: whatever call fails and whenever a
\* process dies, a film leaves the library only for the quarantine, whole, and
\* its place is taken only by its own encode; nothing goes back, and one film
\* moves at a time (pipeline.go:46-102, 178-215).
THEOREM PipelineImplementsSafeReplace ==
  ASSUME Exclusive, StemsDistinct
  PROVE  PipelineSpec => ImplementsSafeReplace
<1>1. PipelineInit => Safe!SafeInit
  BY StageInit
<1>2. ReplaceInv /\ [PipelineNext]_pipelineVars => [Safe!SafeNext]_StageOf
  BY StepsOnFiles, StageStep DEF ReplaceInv
<1> QED
  BY <1>1, <1>2, ReplaceInvariance, PTL
     DEF PipelineSpec, ImplementsSafeReplace, Safe!SafeReplaceSpec

-----------------------------------------------------------------------------
(* A step of w leaves true what the others report.                           *)

CallKept(x) == /\ pc'[x] = pc[x] /\ path'[x] = path[x]
               /\ media'[x] = media[x] /\ result'[x] = result[x]

StepOf(w) == /\ \A x \in Worker \ {w} : CallKept(x)
             /\ UNCHANGED <<disk, vault>> \/ FileStep(w)

LEMMA ReportKept ==
  ASSUME ReportInv, NEW x \in Worker, CallKept(x), UNCHANGED <<disk, vault>>
  PROVE  ReportOf(x)'
BY DEF ReportInv, ReportOf, CallKept, Reported

LEMMA OthersReport ==
  ASSUME ReportInv, NEW w \in Worker, StepOf(w), NEW x \in Worker, x # w
  PROVE  ReportOf(x)'
<1>1. PipelineInv /\ ReportOf(x) /\ CallKept(x)
  BY DEF ReportInv, StepOf
<1>2. CASE UNCHANGED <<disk, vault>>
  BY <1>1, <1>2, ReportKept
<1>3. CASE FileStep(w)
  <2>1. ASSUME pc'[x] \in {"cleanup", "return"}, IsOriginal(media'[x])
        PROVE  Reported(x)'
    <3>1. path[x] \in LibPath /\ Reported(x) /\ IsOriginal(media[x])
      BY <1>1, <2>1 DEF ReportOf, CallKept, PipelineInv, CallInv
    <3>2. path[w] \in LibPath /\ IsOriginal(media[w]) /\ path[w] \in Path
      BY <1>1, <1>3, OwnFacts DEF FileStep, Alone
    <3>3. path[x].stem # path[w].stem
      BY <1>1, <3>1, <3>2 DEF PipelineInv, OneCallPerFilm
    <3>4. /\ FinalOf(path[x]).stem = path[x].stem /\ FinalOf(path[w]).stem = path[w].stem
          /\ FinalOf(path[x]) \in LibPath /\ FinalOf(path[x]) \in Path /\ path[x] \in Path
      BY <3>1, <3>2, PathFacts
    <3>5. /\ disk'[path[x]] = disk[path[x]] /\ vault'[path[x]] = vault[path[x]]
          /\ disk'[FinalOf(path[x])] = disk[FinalOf(path[x])]
      BY <1>3, <3>1, <3>3, <3>4 DEF FileStep, Aside, Copies, Moves, Elsewhere, Replaces
    <3> QED
      BY <1>1, <3>1, <3>5 DEF CallKept, Reported
  <2> QED
    BY <1>1, <2>1 DEF ReportOf, CallKept
<1> QED
  BY <1>2, <1>3 DEF StepOf

\* Every step of ProcessFile is one worker's, and leaves its path as it is.
LEMMA ProcessStepIsOwn ==
  ASSUME PipelineInv, NEW w \in Worker, ProcessStep(w)
  PROVE  /\ StepOf(w)
         /\ path' = path
<1>1. PipelineTypeOK
  BY DEF PipelineInv
<1>2. /\ path' = path
      /\ \E l \in PC : pc' = [pc EXCEPT ![w] = l]
      /\ media' = media \/ \E c : media' = [media EXCEPT ![w] = c]
      /\ result' = result \/ \E r : result' = [result EXCEPT ![w] = r]
  <2>1. CASE ProbeFails(w) \/ Probe(w)
    BY <2>1 DEF ProbeFails, Probe, Return, Goto, PC, Encoding
  <2>2. CASE \/ EncodeRefused(w) \/ EncodeFails(w) \/ VerifyFails(w) \/ NotSmaller(w)
             \/ QuarantineFails(w) \/ UnlinkFails(w) \/ InstallFails(w)
             \/ CopyFails(w) \/ CloseFails(w)
    BY <2>2 DEF EncodeRefused, EncodeFails, VerifyFails, NotSmaller, QuarantineFails,
                UnlinkFails, InstallFails, CopyFails, CloseFails, Conclude, Goto, PC, Encoding
  <2>3. CASE \/ StartEncode(w) \/ EncodeDone(w) \/ Verified(w)
             \/ QuarantineByRename(w) \/ StartCopy(w) \/ CopyDone(w) \/ Unlink(w)
    BY <2>3 DEF StartEncode, EncodeDone, Verified, QuarantineByRename, StartCopy, CopyDone,
                Unlink, Goto, callVars, PC, Encoding, Swapping
  <2>4. CASE Install(w)
    BY <2>4 DEF Install, Conclude, Goto, PC, Encoding
  <2>5. CASE Cleanup(w)
    BY <2>5 DEF Cleanup, Goto, callVars, PC
  <2> QED
    BY <2>1, <2>2, <2>3, <2>4, <2>5 DEF ProcessStep
<1>3. \A x \in Worker \ {w} : CallKept(x)
  BY <1>1, <1>2 DEF CallKept, PipelineTypeOK
<1>4. UNCHANGED <<disk, vault>> \/ FileStep(w)
  <2>1. CASE \/ ProbeFails(w) \/ Probe(w)
             \/ EncodeRefused(w) \/ EncodeFails(w) \/ VerifyFails(w) \/ NotSmaller(w)
             \/ Verified(w) \/ QuarantineFails(w) \/ UnlinkFails(w) \/ InstallFails(w)
    BY <2>1 DEF ProbeFails, Probe, EncodeRefused, EncodeFails, VerifyFails, NotSmaller,
                Verified, QuarantineFails, UnlinkFails, InstallFails, fileVars
  <2>2. CASE ~(\/ ProbeFails(w) \/ Probe(w)
               \/ EncodeRefused(w) \/ EncodeFails(w) \/ VerifyFails(w) \/ NotSmaller(w)
               \/ Verified(w) \/ QuarantineFails(w) \/ UnlinkFails(w) \/ InstallFails(w))
    BY <2>2, TempSteps, MoveSteps, CopySteps, InstallStep DEF ProcessStep
  <2> QED
    BY <2>1, <2>2
<1> QED
  BY <1>2, <1>3, <1>4 DEF StepOf

-----------------------------------------------------------------------------
(* What a step of w makes w report.                                          *)

LEMMA ProbeReports ==
  ASSUME ReportInv, NEW w \in Worker, ProbeFails(w) \/ Probe(w)
  PROVE  ReportOf(w)'
<1>1. /\ PipelineTypeOK /\ pc[w] = "probe" /\ media[w] = NoFile
      /\ UNCHANGED <<disk, vault, path>>
  BY DEF ReportInv, PipelineInv, CallInv, ProbeFails, Probe, fileVars
<1>2. CASE ProbeFails(w)
  <2>1. pc'[w] = "return" /\ media'[w] = NoFile /\ result'[w] = "failed"
    BY <1>1, <1>2 DEF ProbeFails, Return, Goto, PipelineTypeOK
  <2> QED
    BY <2>1 DEF ReportOf, IsOriginal
<1>3. CASE Probe(w)
  <2>1. /\ media'[w] = disk[path[w]]
        /\ \/ pc'[w] = "encode"
           \/ pc'[w] = "return" /\ result'[w] = "skipped"
    BY <1>1, <1>3 DEF Probe, Return, Goto, PipelineTypeOK
  <2>2. pc'[w] = "return" => Reported(w)'
    BY <1>1, <2>1 DEF Reported
  <2> QED
    BY <2>1, <2>2 DEF ReportOf
<1> QED
  BY <1>2, <1>3

LEMMA GivingUpReports ==
  ASSUME ReportInv, NEW w \in Worker,
         \/ EncodeRefused(w) \/ EncodeFails(w) \/ VerifyFails(w) \/ NotSmaller(w)
         \/ QuarantineFails(w) \/ UnlinkFails(w) \/ InstallFails(w)
         \/ CopyFails(w) \/ CloseFails(w)
  PROVE  ReportOf(w)'
<1>1. /\ PipelineInv /\ PipelineTypeOK /\ CallInv(w)
  BY DEF ReportInv, PipelineInv
<1>2. /\ pc[w] \in {"encode", "encoding", "verify", "quarantine", "copying", "unlink", "install"}
      /\ pc[w] \in Encoding
  BY DEF EncodeRefused, EncodeFails, VerifyFails, NotSmaller, QuarantineFails, UnlinkFails,
         InstallFails, CopyFails, CloseFails, Encoding, Swapping
<1>3. /\ pc' = [pc EXCEPT ![w] = "cleanup"]
      /\ \E r \in {"failed", "skipped"} :
           /\ result' = [result EXCEPT ![w] = r]
           /\ pc[w] = "install" => r = "failed"
      /\ UNCHANGED <<disk, path, media>>
  BY DEF EncodeRefused, EncodeFails, VerifyFails, NotSmaller, QuarantineFails, UnlinkFails,
         InstallFails, CopyFails, CloseFails, Conclude, Goto, fileVars
<1>4. pc[w] = "install" => vault' = vault
  BY DEF EncodeRefused, EncodeFails, VerifyFails, NotSmaller, QuarantineFails, UnlinkFails,
         InstallFails, CopyFails, CloseFails, fileVars
<1>5. /\ pc'[w] = "cleanup" /\ result'[w] \in {"failed", "skipped"}
      /\ pc[w] = "install" => result'[w] = "failed"
  BY <1>1, <1>3 DEF PipelineTypeOK
<1>6. Reported(w)'
  <2>1. CASE pc[w] = "install"
    <3>1. vault[path[w]] = media[w]
      BY <1>1, <2>1 DEF CallInv
    <3> QED
      BY <1>3, <1>4, <1>5, <2>1, <3>1 DEF Reported
  <2>2. CASE pc[w] # "install"
    <3>1. disk[path[w]] = media[w]
      BY <1>1, <1>2, <2>2 DEF CallInv
    <3> QED
      BY <1>3, <1>5, <3>1 DEF Reported
  <2> QED
    BY <2>1, <2>2
<1> QED
  BY <1>5, <1>6 DEF ReportOf

LEMMA InstallReports ==
  ASSUME ReportInv, NEW w \in Worker, Install(w)
  PROVE  ReportOf(w)'
<1>1. /\ PipelineInv /\ PipelineTypeOK /\ CallInv(w) /\ pc[w] = "install" /\ pc[w] \in Encoding
  BY DEF ReportInv, PipelineInv, Install, Encoding, Swapping
<1>2. vault[path[w]] = media[w] /\ disk[Temp(w)] = Enc(media[w].of)
  BY <1>1 DEF CallInv, Swapping
<1> DEFINE f == FinalOf(path[w])
<1>3. /\ path[w] \in LibPath /\ f \in Path /\ Temp(w) \in Path /\ f # Temp(w)
  BY <1>1, OwnFacts, PathFacts
<1>4. /\ disk' = [disk EXCEPT ![f] = disk[Temp(w)], ![Temp(w)] = NoFile]
      /\ pc'[w] = "cleanup" /\ result'[w] = "done"
      /\ UNCHANGED <<vault, path, media>>
  BY <1>1 DEF Install, Rename, Conclude, Goto, PipelineTypeOK
<1>5. disk'[f] = Enc(media[w].of)
  <2> HIDE DEF f
  <2> QED
    BY <1>1, <1>2, <1>3, <1>4 DEF PipelineTypeOK
<1>6. Reported(w)'
  BY <1>2, <1>4, <1>5 DEF Reported
<1> QED
  BY <1>4, <1>6 DEF ReportOf

LEMMA CleanupReports ==
  ASSUME ReportInv, NEW w \in Worker, Cleanup(w)
  PROVE  ReportOf(w)'
<1>1. /\ PipelineInv /\ PipelineTypeOK /\ ReportOf(w)
      /\ pc[w] = "cleanup" /\ pc[w] \in Encoding
  BY DEF ReportInv, PipelineInv, Cleanup, Encoding
<1>2. /\ path[w] \in LibPath /\ path[w] \in Path
      /\ Temp(w) \in Path /\ Temp(w) \notin LibPath /\ IsOriginal(media[w])
      /\ FinalOf(path[w]) \in LibPath /\ FinalOf(path[w]) \in Path
  BY <1>1, OwnFacts, PathFacts
<1>3. /\ pc'[w] = "return"
      /\ UNCHANGED <<vault, path, media, result>>
      /\ disk' = disk \/ disk' = [disk EXCEPT ![Temp(w)] = NoFile]
  BY <1>1 DEF Cleanup, Remove, Goto, callVars, PipelineTypeOK
<1>4. disk'[path[w]] = disk[path[w]] /\ disk'[FinalOf(path[w])] = disk[FinalOf(path[w])]
  BY <1>1, <1>2, <1>3 DEF PipelineTypeOK
<1>5. Reported(w)
  BY <1>1, <1>2 DEF ReportOf
<1>6. Reported(w)'
  BY <1>3, <1>4, <1>5 DEF Reported
<1> QED
  BY <1>2, <1>3, <1>6 DEF ReportOf

\* The other steps settle nothing.
LEMMA WorkReports ==
  ASSUME ReportInv, NEW w \in Worker,
         \/ StartEncode(w) \/ EncodeDone(w) \/ Verified(w)
         \/ QuarantineByRename(w) \/ StartCopy(w) \/ CopyDone(w) \/ Unlink(w)
  PROVE  ReportOf(w)'
<1>1. PipelineTypeOK
  BY DEF ReportInv, PipelineInv
<1>2. pc'[w] \in {"encoding", "verify", "quarantine", "copying", "unlink", "install"}
  BY <1>1 DEF StartEncode, EncodeDone, Verified, QuarantineByRename, StartCopy, CopyDone,
              Unlink, Goto, PipelineTypeOK
<1> QED
  BY <1>2 DEF ReportOf

-----------------------------------------------------------------------------
\* Every step of ProcessFile keeps every report true, whoever the caller is.
LEMMA ProcessStepKeepsReports ==
  ASSUME ReportInv, PipelineInv', NEW w \in Worker, ProcessStep(w)
  PROVE  ReportInv'
<1>1. PipelineInv
  BY DEF ReportInv
<1>2. ReportOf(w)'
  BY ProbeReports, GivingUpReports, InstallReports, CleanupReports, WorkReports
     DEF ProcessStep
<1>3. StepOf(w)
  BY <1>1, ProcessStepIsOwn
<1> QED
  BY <1>2, <1>3, OthersReport DEF ReportInv

LEMMA ReportInvNext ==
  ASSUME StemsDistinct, ReportInv, PipelineInv', [PipelineNext]_pipelineVars
  PROVE  ReportInv'
<1>1. PipelineInv /\ PipelineTypeOK
  BY DEF ReportInv, PipelineInv
<1>2. ASSUME NEW w \in Worker, StepOf(w), pc'[w] \in {"probe", "idle"} PROVE ReportInv'
  <2>1. ReportOf(w)'
    BY <1>2 DEF ReportOf
  <2> QED
    BY <1>2, <2>1, OthersReport DEF ReportInv
<1>3. ASSUME NEW w \in Worker, NEW p \in Path, Begin(w, p) PROVE ReportInv'
  <2>1. StepOf(w) /\ pc'[w] = "probe"
    BY <1>1, <1>3 DEF Begin, Goto, StepOf, CallKept, fileVars, PipelineTypeOK
  <2> QED
    BY <1>2, <2>1
<1>4. ASSUME NEW w \in Worker, ProcessStep(w) PROVE ReportInv'
  BY <1>4, ProcessStepKeepsReports
<1>5. ASSUME NEW w \in Worker, Finish(w) \/ Crash(w) PROVE ReportInv'
  <2>1. StepOf(w) /\ pc'[w] = "idle"
    BY <1>1, <1>5 DEF Finish, Crash, Forget, Goto, StepOf, CallKept, fileVars, PipelineTypeOK
  <2> QED
    BY <1>2, <2>1
<1>6. CASE Cancel \/ UNCHANGED pipelineVars
  <2>1. UNCHANGED <<disk, vault, pc, path, media, result>>
    BY <1>6 DEF Cancel, pipelineVars, fileVars, callVars
  <2>2. \A x \in Worker : ReportOf(x)'
    BY <2>1, ReportKept DEF CallKept
  <2> QED
    BY <2>2 DEF ReportInv
<1> QED
  BY <1>3, <1>4, <1>5, <1>6 DEF PipelineNext

LEMMA ReportInvInit == PipelineInit => ReportInv
<1> SUFFICES ASSUME PipelineInit PROVE \A w \in Worker : ReportOf(w)
  BY PipelineInvInit DEF ReportInv
<1> QED
  BY DEF PipelineInit, ReportOf

\* What ProcessFile reports of an original is true: after "done" the original is
\* in the quarantine and its encode in the library, after "skipped" it is where it
\* was, after "failed" it is in one of the two places (pipeline.go:54-102).
THEOREM ReportsAreTrue ==
  ASSUME Exclusive, StemsDistinct
  PROVE  PipelineSpec => []ReportIsTrue
<1>1. PipelineInit => ReportInv
  BY ReportInvInit
<1>2. ReportInv /\ [PipelineNext]_pipelineVars => ReportInv'
  BY ExclusiveInvNext, ReportInvNext DEF ReportInv
<1>3. ReportInv => ReportIsTrue
  BY DEF ReportInv, ReportOf, ReportIsTrue
<1> QED
  BY <1>1, <1>2, <1>3, PTL DEF PipelineSpec
=============================================================================
