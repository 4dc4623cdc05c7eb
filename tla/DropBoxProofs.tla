---------------------------- MODULE DropBoxProofs ----------------------------
(***************************************************************************)
(* Type correctness of DropBox, that only one node wins a file, that a     *)
(* file is judged once and that the roll's split is what the nodes took:   *)
(* for any number of nodes, Locations, files and rounds, whatever fails.   *)
(*                                                                         *)
(* The argument: a file has a name of its own, so the roll sends it once,  *)
(* and from then on it is on one way at a time.  A claim renames it, so    *)
(* one node has it; what fails puts it back or loses it, but never leaves  *)
(* a copy.  Its record is removed when it is judged, so it is judged again *)
(* only where the record would not go.                                     *)
(***************************************************************************)
EXTENDS DropBox, FiniteSetTheorems, TLAPS

\* The roll is at a Location, at a file of the burst and in a round, wherever
\* it uses them.
RollAt ==
    /\ rpc \in {"record", "send"} => round >= 1
    /\ rpc = "send" => at \in Location /\ one <= Burst
    /\ rpc = "clear" => at \in Location
    /\ todo # {} => at \in Location /\ rpc \in {"judge", "clear"}

\* A file is on one way at a time: in its Location, in one node's hand, accepted
\* by one node, or signed for by one.
Apart ==
    /\ \A f \in dir : won[f] = {} /\ \A n \in Node : f \notin hand[n] /\ f \notin cur[n]
    /\ \A n \in Node : \A f \in hand[n] :
          won[f] = {} /\ \A m \in Node : (f \in hand[m] => m = n) /\ f \notin cur[m]
    /\ \A n \in Node : \A f \in cur[n] :
          won[f] = {} /\ \A m \in Node : f \in cur[m] => m = n
    /\ \A f \in File : \A m, n \in won[f] : m = n

\* A node signs for one file at a time.
OneAtATime == \A n \in Node : \A f, g \in cur[n] : f = g

\* A file the roll has yet to come to is nowhere, and was not judged.
ToSend(f) ==
    \/ f.round > round
    \/ /\ f.round = round /\ rpc \in {"record", "send"}
       /\ f.at > at \/ (f.at = at /\ f.one >= one)

Judged == never \cup twice \cup {c[1] : c \in counted}

Unsent ==
    /\ \A f \in File : ToSend(f) =>
          /\ f \notin dir /\ won[f] = {} /\ \A n \in Node : f \notin hand[n] /\ f \notin cur[n]
          /\ f \notin Judged
    /\ \A f \in records : f.round <= round

\* A file judged before is on record only where its record would not go, and
\* each time one is judged it is a new one or one of those.
JudgedAgain ==
    /\ todo \subseteq records
    /\ kept \subseteq Judged /\ records \cap Judged \subseteq kept
    /\ \A c \in counted : c[1] \in never => c[1] \in kept
    /\ files = Cardinality(Judged) + Cardinality(kept \ records)

DInv ==
    /\ TypeOK /\ RollAt
    /\ Apart /\ OneAtATime /\ Unsent
    /\ twice = {} /\ JudgedAgain /\ SplitIsTaken

-----------------------------------------------------------------------------
(* Facts about the operators. *)

\* There are finitely many files.
LEMMA FilesFinite == IsFiniteSet(File)
<1> DEFINE Where == Location \X ((1 .. MaxRound) \X (1 .. Burst))
           place == [f \in File |-> <<f.at, <<f.round, f.one>>>>]
<1>1. IsFiniteSet(Location) /\ IsFiniteSet(1 .. MaxRound) /\ IsFiniteSet(1 .. Burst)
  BY DropBoxAssumption, FS_Interval DEF Location
<1>2. IsFiniteSet((1 .. MaxRound) \X (1 .. Burst))
  BY <1>1, FS_Product
<1>3. IsFiniteSet(Where)
  BY <1>1, <1>2, FS_Product
<1>4. place \in [File -> Where]
  BY DEF File
<1>5. \A f, g \in File : place[f] = place[g] => f = g
  <2> SUFFICES ASSUME NEW f \in File, NEW g \in File, place[f] = place[g] PROVE f = g
    OBVIOUS
  <2>1. f.at = g.at /\ f.round = g.round /\ f.one = g.one
    OBVIOUS
  <2> QED BY <2>1 DEF File
<1>6. place \in Injection(File, Where)
  BY <1>4, <1>5 DEF Injection, IsInjective
<1> QED BY <1>3, <1>6, FS_Injection

\* The parts of a file's name.
LEMMA FileParts ==
    \A f \in File : f.at \in Nat /\ f.round \in Nat /\ f.round >= 1 /\ f.one \in Nat
BY DropBoxAssumption DEF File, Location

LEMMA DropInit == Init => DInv
<1> SUFFICES ASSUME Init PROVE DInv OBVIOUS
<1> USE DEF Init
<1>1. TypeOK
  BY DropBoxAssumption DEF TypeOK, Location
<1>2. RollAt /\ Apart /\ OneAtATime
  BY DEF RollAt, Apart, OneAtATime
<1>3. Judged = {}
  BY DEF Judged
<1>4. Unsent
  BY <1>3 DEF Unsent
<1>5. JudgedAgain
  <2>1. kept \ records = {}
    OBVIOUS
  <2> QED BY <1>3, <2>1, FS_EmptySet DEF JudgedAgain
<1>6. SplitIsTaken
  <2>1. \A n \in Node : {f \in File : n \in won[f] \/ <<f, n>> \in counted} = {}
    OBVIOUS
  <2>2. \A n \in Node : taken[n] = 0
    OBVIOUS
  <2> QED BY <2>1, <2>2, FS_EmptySet DEF SplitIsTaken
<1> QED BY <1>1, <1>2, <1>4, <1>5, <1>6 DEF DInv

-----------------------------------------------------------------------------
(* The roll's steps. *)

\* Steps that move no file and judge none.
LEMMA WalkInv ==
    ASSUME DInv, \/ StartFarEnd \/ FarEndsStarted \/ FarEndsFail \/ RoundBegins \/ NextLocation
                 \/ AllDropped \/ JudgeBegins \/ RoundEnds \/ \E f \in File : Age(f)
    PROVE  DInv'
<1> USE DEF DInv, nodeVars, boxVars, rollVars
<1>0. UNCHANGED <<dir, won, records, judging, files, counted, twice, never, kept, tpc, taking, hand,
                  cur, taken, killed>>
  BY DEF StartFarEnd, FarEndsStarted, FarEndsFail, RoundBegins, NextLocation, AllDropped,
         JudgeBegins, RoundEnds, Age
<1>1. Apart' /\ OneAtATime' /\ SplitIsTaken' /\ twice' = {} /\ Judged' = Judged
  BY <1>0 DEF Apart, OneAtATime, SplitIsTaken, Judged
<1>2. todo' \subseteq records /\ (todo' # {} => at' \in Location /\ rpc' \in {"judge", "clear"})
  BY DEF StartFarEnd, FarEndsStarted, FarEndsFail, RoundBegins, NextLocation, AllDropped,
         JudgeBegins, DueAt, RoundEnds, Age, JudgedAgain, RollAt
<1>3. JudgedAgain'
  BY <1>0, <1>1, <1>2 DEF JudgedAgain
<1>4. at' \in 1 .. Locations + 1 /\ one' \in 1 .. Burst + 1 /\ round' \in 0 .. MaxRound
  BY DropBoxAssumption DEF StartFarEnd, FarEndsStarted, FarEndsFail, RoundBegins, NextLocation,
         AllDropped, JudgeBegins, RoundEnds, Age, TypeOK, Location
<1>5. TypeOK'
  <2>1. said' \subseteq Remote /\ due' \subseteq File
    BY DEF StartFarEnd, FarEndsStarted, FarEndsFail, RoundBegins, NextLocation,
           AllDropped, JudgeBegins, RoundEnds, Age, TypeOK
  <2>2. rpc' \in {"start", "rest", "record", "send", "judge", "clear"}
    BY DEF StartFarEnd, FarEndsStarted, FarEndsFail, RoundBegins, NextLocation,
           AllDropped, JudgeBegins, RoundEnds, Age, TypeOK
  <2> QED BY <1>0, <1>2, <1>4, <2>1, <2>2 DEF TypeOK
<1>6. round <= round' /\ round \in Nat /\ round' \in Nat /\ at \in Nat /\ one \in Nat
  BY <1>4, DropBoxAssumption DEF StartFarEnd, FarEndsStarted, FarEndsFail, RoundBegins,
         NextLocation, AllDropped, JudgeBegins, RoundEnds, Age, TypeOK
<1>7. RollAt'
  BY <1>2, <1>4, DropBoxAssumption DEF StartFarEnd, FarEndsStarted, FarEndsFail, RoundBegins,
         NextLocation, AllDropped, JudgeBegins, RoundEnds, Age, RollAt, TypeOK
<1>8. \A f \in File : ToSend(f)' => ToSend(f)
  <2> SUFFICES ASSUME NEW f \in File, ToSend(f)' PROVE ToSend(f)
    OBVIOUS
  <2> USE FileParts
  <2>1. CASE RoundBegins
    BY <1>6, <2>1 DEF RoundBegins, ToSend
  <2>2. CASE NextLocation
    BY <1>6, <2>2, DropBoxAssumption DEF NextLocation, ToSend, TypeOK
  <2>3. CASE StartFarEnd \/ FarEndsStarted \/ FarEndsFail \/ AllDropped \/ JudgeBegins \/ RoundEnds
             \/ \E g \in File : Age(g)
    BY <1>4, <1>6, <2>3, DropBoxAssumption DEF StartFarEnd, FarEndsStarted, FarEndsFail, AllDropped, JudgeBegins,
           RoundEnds, Age, ToSend
  <2> QED BY <2>1, <2>2, <2>3
<1>9. Unsent'
  <2>1. \A f \in records : f.round <= round'
    BY <1>6, FileParts DEF Unsent, TypeOK
  <2> QED BY <1>0, <1>1, <1>8, <2>1 DEF Unsent
<1> QED BY <1>1, <1>3, <1>5, <1>7, <1>9

\* The file the roll is at is one it has yet to send.
LEMMA ThisIsToSend ==
    ASSUME DInv, rpc \in {"record", "send"}, at \in Location, one <= Burst
    PROVE  /\ ThisFile \in File /\ ToSend(ThisFile) /\ ThisFile.round = round
           /\ ThisFile.at = at /\ ThisFile.one = one
<1>1. round \in 1 .. MaxRound /\ one \in 1 .. Burst /\ at \in Nat
  BY DropBoxAssumption DEF DInv, TypeOK, RollAt
<1> QED BY <1>1 DEF ThisFile, File, ToSend

LEMMA RecordInv == ASSUME DInv, Record PROVE DInv'
<1> USE DEF DInv, Record, nodeVars
<1>1. /\ ThisFile \in File /\ ToSend(ThisFile) /\ ThisFile.round = round
  BY ThisIsToSend DEF MoreFiles
<1>2. TypeOK'
  BY <1>1 DEF TypeOK
<1>3. RollAt' /\ Apart' /\ OneAtATime' /\ SplitIsTaken' /\ twice' = {} /\ Judged' = Judged
  BY DEF RollAt, Apart, OneAtATime, SplitIsTaken, Judged, MoreFiles
<1>4. Unsent'
  <2>1. \A f \in File : ToSend(f)' = ToSend(f)
    BY DEF ToSend
  <2>2. \A f \in records' : f.round <= round
    BY <1>1 DEF Unsent, TypeOK
  <2> QED BY <1>3, <2>1, <2>2 DEF Unsent
<1>5. JudgedAgain'
  <2>1. ThisFile \notin Judged
    BY <1>1 DEF Unsent
  <2>2. kept \ records' = kept \ records
    BY <2>1 DEF JudgedAgain
  <2> QED BY <1>3, <2>1, <2>2 DEF JudgedAgain
<1> QED BY <1>2, <1>3, <1>4, <1>5

\* Sending the file puts it where it was not, and on no other way.
LEMMA SendInv == ASSUME DInv, Send \/ DropFails PROVE DInv'
<1> USE DEF DInv, nodeVars
<1>0. /\ UNCHANGED <<said, records, due, won, round, todo, judging, files, counted, twice, never,
                     kept, tpc, taking, hand, cur, taken, killed>>
      /\ rpc \in {"record", "send"} /\ at \in Location /\ one <= Burst
      /\ \E there \in SUBSET {ThisFile} : dir' = dir \cup there
      /\ \/ rpc' = "record" /\ at' = at /\ one' = one + 1
         \/ rpc' = "judge" /\ at' = 1 /\ one' = 1 /\ todo = {}
  BY DEF Send, DropFails, MoreFiles, RollAt
<1>1. /\ ThisFile \in File /\ ToSend(ThisFile) /\ ThisFile.round = round
      /\ ThisFile.at = at /\ ThisFile.one = one
  BY <1>0, ThisIsToSend
<1>2. at \in Nat /\ one \in 1 .. Burst /\ round \in 1 .. MaxRound
  BY <1>0, DropBoxAssumption DEF TypeOK, RollAt
<1>3. TypeOK'
  <2>1. dir' \subseteq File
    BY <1>0, <1>1 DEF TypeOK
  <2>2. at' \in 1 .. Locations + 1 /\ one' \in 1 .. Burst + 1
    BY <1>0, <1>2, DropBoxAssumption DEF TypeOK
  <2>3. rpc' \in {"start", "rest", "record", "send", "judge", "clear"}
    BY <1>0
  <2> QED BY <1>0, <2>1, <2>2, <2>3 DEF TypeOK
<1>4. RollAt'
  BY <1>0, <1>2 DEF RollAt
<1>5. OneAtATime' /\ SplitIsTaken' /\ twice' = {} /\ Judged' = Judged
  BY <1>0 DEF OneAtATime, SplitIsTaken, Judged
<1>6. JudgedAgain'
  BY <1>0, <1>5 DEF JudgedAgain
<1>7. Apart'
  BY <1>0, <1>1 DEF Apart, Unsent
<1>8. Unsent'
  <2>1. \A f \in File : ToSend(f)' => ToSend(f) /\ f # ThisFile
    BY <1>0, <1>1, <1>2, FileParts DEF ToSend
  <2> QED BY <1>0, <1>5, <2>1 DEF Unsent
<1> QED BY <1>3, <1>4, <1>5, <1>6, <1>7, <1>8

LEMMA JudgeFileInv == ASSUME DInv, JudgeFile PROVE DInv'
<1> USE DEF DInv, nodeVars
<1>0. /\ UNCHANGED <<said, dir, due, won, at, one, round, tpc, taking, hand, cur, taken, killed>>
      /\ rpc = "judge" /\ rpc' = "clear"
  BY DEF JudgeFile
<1>1. PICK f \in todo :
        /\ files' = files + 1
        /\ counted' = IF Cardinality(won[f]) = 1
                      THEN counted \cup ({f} \X won[f]) ELSE counted
        /\ twice' = IF Cardinality(won[f]) > 1 THEN twice \cup {f} ELSE twice
        /\ never' = IF won[f] = {} THEN never \cup {f} ELSE never
        /\ \/ records' = Recorded(f) /\ UNCHANGED kept
           \/ Faulty /\ f \notin kept /\ UNCHANGED records /\ kept' = kept \cup {f}
        /\ todo' = todo \ {f} /\ judging' = {f}
  BY DEF JudgeFile
<1>2. f \in File /\ f \in records /\ at \in Location
  BY <1>1 DEF TypeOK, JudgedAgain, RollAt
<1>3. /\ won[f] = {} \/ \E n \in Node : won[f] = {n}
      /\ won[f] = {} => Cardinality(won[f]) = 0
      /\ won[f] # {} => Cardinality(won[f]) = 1
  <2>1. won[f] = {} \/ \E n \in Node : won[f] = {n}
    BY <1>2 DEF Apart, TypeOK
  <2> QED BY <2>1, FS_EmptySet, FS_Singleton
<1>4. twice' = {}
  BY <1>1, <1>3
<1>5. \/ /\ won[f] = {} /\ never' = never \cup {f} /\ counted' = counted
      \/ \E n \in Node : /\ won[f] = {n} /\ never' = never
                         /\ counted' = counted \cup {<<f, n>>}
  <2>1. CASE won[f] = {}
    BY <1>1, <1>3, <2>1
  <2>2. CASE won[f] # {}
    <3>1. PICK n \in Node : won[f] = {n}
      BY <1>3, <2>2
    <3>2. {f} \X won[f] = {<<f, n>>}
      BY <3>1
    <3> QED BY <1>1, <1>3, <2>2, <3>1, <3>2
  <2> QED BY <2>1, <2>2
<1>6. Judged' = Judged \cup {f}
  <2>1. CASE won[f] = {} /\ never' = never \cup {f} /\ counted' = counted
    BY <1>4, <2>1 DEF Judged
  <2>2. ASSUME NEW n \in Node, never' = never, counted' = counted \cup {<<f, n>>}
        PROVE  Judged' = Judged \cup {f}
    <3>1. {c[1] : c \in counted'} = {c[1] : c \in counted} \cup {f}
      <4>1. <<f, n>>[1] = f
        OBVIOUS
      <4> QED BY <2>2, <4>1
    <3> QED BY <1>4, <2>2, <3>1 DEF Judged
  <2> QED BY <1>5, <2>1, <2>2
<1>7. TypeOK'
  <2>1. counted' \subseteq File \X Node
    BY <1>2, <1>5 DEF TypeOK
  <2>2. never' \subseteq File /\ twice' \subseteq File
    BY <1>2, <1>4, <1>5 DEF TypeOK
  <2>3. records' \subseteq File /\ kept' \subseteq File /\ todo' \subseteq File
        /\ judging' \subseteq File /\ files' \in Nat
    BY <1>1, <1>2 DEF TypeOK, Recorded
  <2> QED BY <1>0, <2>1, <2>2, <2>3 DEF TypeOK
<1>8. RollAt' /\ Apart' /\ OneAtATime'
  BY <1>0, <1>2 DEF RollAt, Apart, OneAtATime
<1>9. Unsent'
  <2>1. \A g \in File : ToSend(g)' => ToSend(g) /\ g # f
    <3>1. f.round <= round /\ round \in Nat /\ f.round \in Nat
      BY <1>2, FileParts DEF Unsent, TypeOK
    <3> QED BY <1>0, <3>1 DEF ToSend
  <2>2. records' \subseteq records
    BY <1>1 DEF Recorded
  <2> QED BY <1>0, <1>6, <2>1, <2>2 DEF Unsent
<1>10. JudgedAgain'
  <2>1. IsFiniteSet(Judged) /\ IsFiniteSet(kept \ records)
    <3>1. Judged \subseteq File /\ kept \ records \subseteq File
      BY DEF Judged, TypeOK
    <3> QED BY <3>1, FilesFinite, FS_Subset
  <2>2. /\ Cardinality(Judged) \in Nat /\ Cardinality(kept \ records) \in Nat
        /\ Cardinality(Judged \cup {f}) =
              IF f \in Judged THEN Cardinality(Judged) ELSE Cardinality(Judged) + 1
        /\ Cardinality((kept \ records) \cup {f}) = Cardinality(kept \ records) + 1
    BY <1>2, <2>1, FS_AddElement, FS_CardinalityType
  <2>3. f \in Judged => f \in kept
    BY <1>2 DEF JudgedAgain
  <2>4. files' = Cardinality(Judged') + Cardinality(kept' \ records')
    <3>0. files' = files + 1 /\ files = Cardinality(Judged) + Cardinality(kept \ records)
      BY <1>1 DEF JudgedAgain
    <3>1. CASE records' = Recorded(f) /\ kept' = kept /\ f \in kept
      <4>1. kept' \ records' = (kept \ records) \cup {f} /\ Judged' = Judged
        BY <1>2, <1>6, <3>1 DEF Recorded, JudgedAgain
      <4>2. /\ Cardinality(kept' \ records') = Cardinality(kept \ records) + 1
            /\ Cardinality(Judged') = Cardinality(Judged)
        BY <2>2, <4>1, Zenon
      <4> QED BY <2>2, <3>0, <4>2
    <3>2. CASE records' = Recorded(f) /\ kept' = kept /\ f \notin kept
      <4>1. kept' \ records' = kept \ records /\ f \notin Judged
        BY <1>2, <2>3, <3>2 DEF Recorded
      <4>2. /\ Cardinality(kept' \ records') = Cardinality(kept \ records)
            /\ Cardinality(Judged') = Cardinality(Judged) + 1
        BY <1>6, <2>2, <4>1, Zenon
      <4> QED BY <2>2, <3>0, <4>2
    <3>3. CASE f \notin kept /\ records' = records /\ kept' = kept \cup {f}
      <4>1. kept' \ records' = kept \ records /\ f \notin Judged
        BY <1>2, <2>3, <3>3
      <4>2. /\ Cardinality(kept' \ records') = Cardinality(kept \ records)
            /\ Cardinality(Judged') = Cardinality(Judged) + 1
        BY <1>6, <2>2, <4>1, Zenon
      <4> QED BY <2>2, <3>0, <4>2
    <3> QED BY <1>1, <3>1, <3>2, <3>3
  <2>5. todo' \subseteq records' /\ kept' \subseteq Judged' /\ records' \cap Judged' \subseteq kept'
    BY <1>1, <1>2, <1>6 DEF JudgedAgain, Recorded
  <2>6. \A c \in counted' : c[1] \in never' => c[1] \in kept'
    <3>1. kept \subseteq kept'
      BY <1>1
    <3>2. \A c \in counted : c[1] \in Judged
      BY DEF Judged
    <3>3. \A g \in never : g \in Judged
      BY DEF Judged
    <3> QED BY <1>5, <2>3, <3>1, <3>2, <3>3 DEF JudgedAgain
  <2> QED BY <2>4, <2>5, <2>6 DEF JudgedAgain
<1>11. SplitIsTaken'
  <2>1. \A n \in Node : {g \in File : n \in won'[g] \/ <<g, n>> \in counted'} =
                        {g \in File : n \in won[g] \/ <<g, n>> \in counted}
    <3>1. \A n \in Node, g \in File : <<g, n>> \in counted' => <<g, n>> \in counted \/ n \in won[g]
      BY <1>5
    <3>2. counted \subseteq counted'
      BY <1>5
    <3> QED BY <1>0, <3>1, <3>2
  <2> QED BY <1>0, <2>1 DEF SplitIsTaken
<1> QED BY <1>4, <1>7, <1>8, <1>9, <1>10, <1>11

\* What is cleared of the signatures the split no longer needs: it is counted,
\* or it was signed too late.
LEMMA ClearInv == ASSUME DInv, ClearSigned PROVE DInv'
<1> USE DEF DInv, nodeVars
<1>0. /\ UNCHANGED <<said, dir, records, due, one, round, todo, files, counted, twice, never,
                     kept, tpc, taking, hand, cur, taken, killed>>
      /\ rpc = "clear" /\ rpc' = "judge" /\ judging' = {}
      /\ at' = IF todo = {} THEN at + 1 ELSE at
  BY DEF ClearSigned
<1>1. at \in Location /\ at' \in 1 .. Locations + 1
  BY <1>0, DropBoxAssumption DEF RollAt, Location
<1>2. won' \in [File -> SUBSET Node] /\ \A f \in File : won'[f] = won[f] \/ won'[f] = {}
  BY DEF ClearSigned, TypeOK
<1>3. TypeOK'
  BY <1>0, <1>1, <1>2 DEF TypeOK
<1>4. RollAt' /\ OneAtATime' /\ twice' = {} /\ Judged' = Judged
  BY <1>0, <1>1 DEF RollAt, OneAtATime, Judged
<1>5. Apart'
  BY <1>0, <1>2 DEF Apart, TypeOK
<1>6. Unsent'
  <2>1. \A f \in File : ToSend(f)' => ToSend(f)
    BY <1>0 DEF ToSend
  <2> QED BY <1>0, <1>2, <1>4, <2>1 DEF Unsent
<1>7. JudgedAgain'
  BY <1>0, <1>4 DEF JudgedAgain
<1>8. SplitIsTaken'
  <2> SUFFICES ASSUME NEW n \in Node \ killed
               PROVE  Cardinality({f \in File : n \in won'[f] \/ <<f, n>> \in counted}) <= taken[n]
    BY <1>0 DEF SplitIsTaken
  <2> DEFINE S == {f \in File : n \in won[f] \/ <<f, n>> \in counted}
             T == {f \in File : n \in won'[f] \/ <<f, n>> \in counted}
  <2>1. IsFiniteSet(S) /\ T \subseteq S
    BY <1>2, FilesFinite, FS_Subset
  <2>2. Cardinality(T) <= Cardinality(S) /\ Cardinality(T) \in Nat /\ Cardinality(S) \in Nat
    BY <2>1, FS_Subset, FS_CardinalityType
  <2>3. Cardinality(S) <= taken[n] /\ taken[n] \in Nat
    BY DEF SplitIsTaken, TypeOK
  <2> HIDE DEF S, T
  <2>4. Cardinality(T) <= taken[n]
    BY <2>2, <2>3
  <2> QED BY <2>4 DEF T
<1> QED BY <1>3, <1>4, <1>5, <1>6, <1>7, <1>8

-----------------------------------------------------------------------------
(* The nodes' steps. *)

\* What no step of a node changes.
LEMMA NodeFrame ==
    ASSUME DInv, UNCHANGED <<records, rollVars>>
    PROVE  /\ RollAt' /\ twice' = {} /\ Judged' = Judged /\ JudgedAgain'
           /\ \A f \in File : ToSend(f)' = ToSend(f)
BY DEF DInv, rollVars, RollAt, Judged, JudgedAgain, ToSend

\* A claim takes the file out of the Location.
LEMMA ClaimInv == ASSUME DInv, NEW n \in Node, ClaimFile(n) PROVE DInv'
<1> USE DEF DInv
<1>0. UNCHANGED <<said, records, due, won, rollVars, cur, taken, killed>>
      /\ tpc' = [tpc EXCEPT ![n] = "list"]
  BY DEF ClaimFile
<1>1. PICK f \in dir : /\ dir'    = dir \ {f}
                       /\ hand'   = [hand EXCEPT ![n] = @ \cup {f}]
                       /\ taking' = [taking EXCEPT ![n] = f.at]
  BY DEF ClaimFile
<1>2. f \in File /\ f.at \in Location
  BY DEF TypeOK, File
<1>3. TypeOK'
  BY <1>0, <1>1, <1>2 DEF TypeOK, rollVars
<1>4. \A m \in Node : hand'[m] = IF m = n THEN hand[n] \cup {f} ELSE hand[m]
  BY <1>1 DEF TypeOK
<1>5. Apart'
  BY <1>0, <1>1, <1>4 DEF Apart
<1>6. Unsent'
  BY <1>0, <1>1, <1>4, NodeFrame DEF Unsent, rollVars, TypeOK
<1>7. OneAtATime' /\ SplitIsTaken'
  BY <1>0 DEF OneAtATime, SplitIsTaken, rollVars
<1> QED BY <1>0, <1>3, <1>5, <1>6, <1>7, NodeFrame

LEMMA RestInv == ASSUME DInv, NEW n \in Node, Received(n) \/ TakenAll(n) PROVE DInv'
<1> USE DEF DInv, boxVars
<1>0. UNCHANGED <<said, dir, records, due, won, rollVars, hand, cur, taken, killed>>
  BY DEF Received, TakenAll
<1>1. TypeOK'
  BY <1>0 DEF Received, TakenAll, TypeOK, rollVars
<1>2. Apart' /\ OneAtATime' /\ SplitIsTaken'
  BY <1>0 DEF Apart, OneAtATime, SplitIsTaken, rollVars
<1>3. Unsent'
  BY <1>0, NodeFrame DEF Unsent, rollVars
<1> QED BY <1>0, <1>1, <1>2, <1>3, NodeFrame

LEMMA AcceptInv == ASSUME DInv, NEW n \in Node, Accept(n) \/ NotAccepted(n) PROVE DInv'
<1> USE DEF DInv, boxVars
<1>0. UNCHANGED <<said, records, due, won, rollVars, taking, taken, killed>>
  BY DEF Accept, NotAccepted
<1>1. PICK f \in hand[n] :
        /\ hand' = [hand EXCEPT ![n] = @ \ {f}]
        /\ \/ dir' = dir /\ cur' = [cur EXCEPT ![n] = {f}]
           \/ cur' = cur /\ \E back \in SUBSET {f} : dir' = dir \cup back
  BY DEF Accept, NotAccepted, Unsigned
<1>2. f \in File
  BY DEF TypeOK
<1>3. TypeOK'
  <2>1. tpc' \in [Node -> {"rest", "list", "accept", "sign"}]
    BY DEF Accept, NotAccepted, Unsigned, TypeOK
  <2>2. hand' \in [Node -> SUBSET File] /\ cur' \in [Node -> SUBSET File] /\ dir' \subseteq File
    BY <1>1, <1>2 DEF TypeOK
  <2> QED BY <1>0, <2>1, <2>2 DEF TypeOK, rollVars
<1>4. \A m \in Node : hand'[m] = IF m = n THEN hand[n] \ {f} ELSE hand[m]
  BY <1>1 DEF TypeOK
<1>5. /\ \A g \in dir' : g \in dir \/ g = f
      /\ \A m \in Node : \A g \in cur'[m] : g \in cur[m] \/ (g = f /\ m = n)
      /\ dir' = dir \/ cur' = cur
      /\ \A m \in Node : m # n => cur'[m] = cur[m]
      /\ cur'[n] = cur[n] \/ cur'[n] = {f}
  BY <1>1 DEF TypeOK
<1>6. Apart'
  <2>1. /\ won[f] = {} /\ f \notin dir
        /\ \A m \in Node : f \notin cur[m] /\ (f \in hand[m] => m = n)
    BY DEF Apart
  <2>2. \A g \in dir' : won[g] = {} /\ \A m \in Node : g \notin hand'[m] /\ g \notin cur'[m]
    BY <1>4, <1>5, <2>1 DEF Apart
  <2>3. \A m \in Node : \A g \in hand'[m] :
          won[g] = {} /\ \A k \in Node : (g \in hand'[k] => k = m) /\ g \notin cur'[k]
    BY <1>4, <1>5, <2>1 DEF Apart
  <2>4. \A m \in Node : \A g \in cur'[m] : won[g] = {} /\ \A k \in Node : g \in cur'[k] => k = m
    BY <1>5, <2>1 DEF Apart
  <2> QED BY <1>0, <2>2, <2>3, <2>4 DEF Apart
<1>7. Unsent'
  <2>1. ~ToSend(f)
    BY <1>2 DEF Unsent
  <2> QED BY <1>0, <1>4, <1>5, <2>1, NodeFrame DEF Unsent, rollVars
<1>8. OneAtATime' /\ SplitIsTaken'
  BY <1>0, <1>5 DEF OneAtATime, SplitIsTaken, rollVars
<1> QED BY <1>0, <1>3, <1>6, <1>7, <1>8, NodeFrame

LEMMA SignInv == ASSUME DInv, NEW n \in Node, Sign(n) PROVE DInv'
<1> USE DEF DInv
<1>0. /\ UNCHANGED <<said, dir, records, due, rollVars, taking, hand, killed>>
      /\ cur' = [cur EXCEPT ![n] = {}] /\ tpc' = [tpc EXCEPT ![n] = "accept"]
      /\ taken' = [taken EXCEPT ![n] = taken[n] + 1]
  BY DEF Sign, TakenOneMore
<1>1. /\ won' \in [File -> SUBSET Node]
      /\ \A f \in File : won'[f] = won[f] \/ (f \in cur[n] /\ won'[f] = won[f] \cup {n})
  BY DEF Sign, TypeOK
<1>2. TypeOK'
  BY <1>0, <1>1 DEF TypeOK, rollVars
<1>3. \A m \in Node : /\ cur'[m] = IF m = n THEN {} ELSE cur[m]
                      /\ taken'[m] = IF m = n THEN taken[n] + 1 ELSE taken[m]
  BY <1>0 DEF TypeOK
<1>4. Apart'
  <2>1. \A f \in cur[n] : /\ won[f] = {} /\ f \notin dir /\ f \in File
                          /\ \A m \in Node : f \notin hand[m] /\ (f \in cur[m] => m = n)
    BY DEF Apart, TypeOK
  <2>2. \A f \in dir : won'[f] = {} /\ \A m \in Node : f \notin hand[m] /\ f \notin cur'[m]
    BY <1>1, <1>3, <2>1 DEF Apart, TypeOK
  <2>3. \A m \in Node : \A f \in hand[m] :
          won'[f] = {} /\ \A k \in Node : (f \in hand[k] => k = m) /\ f \notin cur'[k]
    BY <1>1, <1>3, <2>1 DEF Apart, TypeOK
  <2>4. \A m \in Node : \A f \in cur'[m] : won'[f] = {} /\ \A k \in Node : f \in cur'[k] => k = m
    BY <1>1, <1>3, <2>1 DEF Apart, TypeOK
  <2>5. \A f \in File : \A k, m \in won'[f] : k = m
    BY <1>1, <2>1 DEF Apart
  <2> QED BY <1>0, <2>2, <2>3, <2>4, <2>5 DEF Apart
<1>5. Unsent'
  <2>1. \A f \in File : ToSend(f) => \A m \in Node : f \notin cur[m]
    BY DEF Unsent
  <2> QED BY <1>0, <1>1, <1>3, <2>1, NodeFrame DEF Unsent, rollVars
<1>6. OneAtATime'
  BY <1>3 DEF OneAtATime
<1>7. SplitIsTaken'
  <2> SUFFICES ASSUME NEW m \in Node \ killed
               PROVE  Cardinality({f \in File : m \in won'[f] \/ <<f, m>> \in counted}) <= taken'[m]
    BY <1>0 DEF SplitIsTaken, rollVars
  <2> DEFINE S == {f \in File : m \in won[f] \/ <<f, m>> \in counted}
             T == {f \in File : m \in won'[f] \/ <<f, m>> \in counted}
  <2>1. IsFiniteSet(S) /\ IsFiniteSet(T) /\ Cardinality(S) \in Nat /\ Cardinality(T) \in Nat
    BY FilesFinite, FS_Subset, FS_CardinalityType
  <2>2. Cardinality(S) <= taken[m] /\ taken[m] \in Nat
    BY DEF SplitIsTaken, TypeOK
  <2>3. CASE T \subseteq S
    <3>1. Cardinality(T) <= Cardinality(S)
      BY <2>1, <2>3, FS_Subset
    <3>2. taken'[m] >= taken[m] /\ taken'[m] \in Nat
      BY <1>3, <2>2
    <3> HIDE DEF S, T
    <3>3. Cardinality(T) <= taken'[m]
      BY <2>1, <2>2, <3>1, <3>2
    <3> QED BY <3>3 DEF T
  <2>4. CASE ~(T \subseteq S)
    <3>1. PICK f \in File : f \in T /\ f \notin S
      BY <2>4
    <3>2. m = n /\ f \in cur[n] /\ \A g \in cur[n] : g = f
      BY <1>1, <3>1 DEF OneAtATime
    <3>3. T \subseteq S \cup {f}
      BY <1>1, <3>2
    <3>4. IsFiniteSet(S \cup {f}) /\ Cardinality(S \cup {f}) = Cardinality(S) + 1
      BY <2>1, <3>1, FS_AddElement
    <3>5. Cardinality(T) <= Cardinality(S) + 1
      <4>1. Cardinality(T) <= Cardinality(S \cup {f})
        BY <3>3, <3>4, FS_Subset
      <4> QED BY <3>4, <4>1, Zenon
    <3>6. taken'[m] = taken[m] + 1
      BY <1>3, <3>2
    <3> HIDE DEF S, T
    <3>7. Cardinality(T) <= taken'[m]
      BY <2>1, <2>2, <3>5, <3>6
    <3> QED BY <3>7 DEF T
  <2> QED BY <2>3, <2>4
<1> QED BY <1>0, <1>2, <1>4, <1>5, <1>6, <1>7, NodeFrame

\* A killed node's claims go back together or are lost together.
LEMMA KillInv == ASSUME DInv, NEW n \in Node, Kill(n) PROVE DInv'
<1> USE DEF DInv
<1>0. /\ UNCHANGED <<said, records, due, won, rollVars>>
      /\ \A m \in Node : /\ hand'[m] = IF m = n THEN {} ELSE hand[m]
                         /\ cur'[m] = IF m = n THEN {} ELSE cur[m]
                         /\ m # n => taken'[m] = taken[m]
      /\ killed' = killed \cup {n}
      /\ \A f \in dir' : f \in dir \/ f \in hand[n]
  BY DEF Kill, TypeOK
<1>1. TypeOK'
  <2>1. dir' \subseteq File
    BY <1>0 DEF TypeOK
  <2> QED BY <1>0, <2>1 DEF Kill, TypeOK, rollVars
<1>2. Apart'
  <2>1. \A f \in dir' : won[f] = {} /\ \A m \in Node : f \notin hand'[m] /\ f \notin cur'[m]
    BY <1>0 DEF Apart
  <2>2. \A m \in Node : \A f \in hand'[m] :
          won[f] = {} /\ \A k \in Node : (f \in hand'[k] => k = m) /\ f \notin cur'[k]
    BY <1>0 DEF Apart
  <2> QED BY <1>0, <2>1, <2>2 DEF Apart
<1>3. Unsent'
  BY <1>0, NodeFrame DEF Unsent, rollVars
<1>4. OneAtATime' /\ SplitIsTaken'
  BY <1>0 DEF OneAtATime, SplitIsTaken, rollVars
<1> QED BY <1>0, <1>1, <1>2, <1>3, <1>4, NodeFrame

-----------------------------------------------------------------------------
(* The invariant and what it implies. *)

LEMMA DropNext == DInv /\ [Next]_vars => DInv'
<1> SUFFICES ASSUME DInv, [Next]_vars PROVE DInv' OBVIOUS
<1>1. CASE UNCHANGED vars
  <2> USE <1>1 DEF DInv, vars, boxVars, rollVars, nodeVars
  <2>1. TypeOK'
    BY DEF TypeOK
  <2>2. Apart' /\ OneAtATime' /\ SplitIsTaken'
    BY DEF Apart, OneAtATime, SplitIsTaken
  <2>3. Unsent'
    BY NodeFrame DEF Unsent
  <2> QED BY <2>1, <2>2, <2>3, NodeFrame
<1>2. CASE RollStep
  BY <1>2, WalkInv, RecordInv, SendInv, JudgeFileInv, ClearInv DEF RollStep
<1>3. CASE \E f \in File : Age(f)
  BY <1>3, WalkInv
<1>4. ASSUME NEW n \in Node, TakerStep(n) \/ Kill(n) PROVE DInv'
  BY <1>4, ClaimInv, RestInv, AcceptInv, SignInv, KillInv DEF TakerStep
<1> QED BY <1>1, <1>2, <1>3, <1>4 DEF Next

LEMMA DropInvariance == Spec => []DInv
BY DropInit, DropNext, PTL DEF Spec

\* Every reachable state of the drop box, the roll and the nodes is well typed.
THEOREM DropBoxTypeCorrect == Spec => []TypeOK
<1>1. DInv => TypeOK
  BY DEF DInv
<1> QED BY <1>1, DropInvariance, PTL

\* Only one receiving node wins a file (drop_box.rs, take_from): none is signed
\* for by two, nor judged taken twice, whatever fails and whoever is killed.
THEOREM OneWinner == Spec => []OnlyOneWins
<1>1. DInv => OnlyOneWins
  <2> SUFFICES ASSUME DInv, NEW f \in File PROVE Cardinality(won[f]) <= 1
    BY DEF OnlyOneWins, DInv
  <2>1. won[f] = {} \/ \E n \in Node : won[f] = {n}
    BY DEF DInv, Apart, TypeOK
  <2>2. Cardinality(won[f]) = 0 \/ Cardinality(won[f]) = 1
    BY <2>1, FS_EmptySet, FS_Singleton
  <2> QED BY <2>2
<1> QED BY <1>1, DropInvariance, PTL

\* judge (judged.rs) counts a file once and comes to one judgment of it, but
\* for the files whose record would not go.
THEOREM OneJudgment == Spec => []JudgedOnce
<1>1. DInv => JudgedOnce
  <2> SUFFICES ASSUME DInv PROVE JudgedOnce
    OBVIOUS
  <2>1. IsFiniteSet(Judged) /\ IsFiniteSet(kept) /\ kept \ records \subseteq kept
    <3>1. Judged \subseteq File /\ kept \subseteq File
      BY DEF DInv, Judged, TypeOK
    <3> QED BY <3>1, FilesFinite, FS_Subset
  <2>2. /\ Cardinality(Judged) \in Nat /\ Cardinality(kept) \in Nat
        /\ Cardinality(kept \ records) \in Nat
        /\ Cardinality(kept \ records) <= Cardinality(kept)
    BY <2>1, FS_Subset, FS_CardinalityType
  <2>3. files = Cardinality(Judged) + Cardinality(kept \ records)
    BY DEF DInv, JudgedAgain
  <2>4. files - Cardinality(Judged) <= Cardinality(kept)
    BY <2>2, <2>3
  <2> QED BY <2>4 DEF DInv, JudgedAgain, JudgedOnce, Judged
<1> QED BY <1>1, DropInvariance, PTL

\* The roll's split by node (judged.rs, by_node) never counts more for a node
\* than the node itself says it took (drop_box.rs, Taker).
THEOREM SplitNeverAhead == Spec => []SplitIsTaken
<1>1. DInv => SplitIsTaken
  BY DEF DInv
<1> QED BY <1>1, DropInvariance, PTL
=============================================================================
