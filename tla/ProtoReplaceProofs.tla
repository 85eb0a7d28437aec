-------------------------- MODULE ProtoReplaceProofs --------------------------
(***************************************************************************)
(* What replace.js leaves in the generated files, for any files and text,  *)
(* any number of runs, and any failures and kills.                         *)
(***************************************************************************)
EXTENDS ProtoReplace, SequenceTheorems, TLAPS

Jobs == {"none", "reading", "writing", "open"}

TypeInv ==
  /\ content \in [Files -> Seq(STRING)] /\ result \in [Files -> Seq(STRING)]
  /\ job \in [Files -> Jobs]
  /\ listing \in BOOLEAN /\ failed \in BOOLEAN /\ runs \in Nat
  /\ kept \in [Files -> Nat]

\* What is left of a file's replacement, and a file that is as protoc wrote it.
Prefix(f, n) == SubSeq(Replaced(f), 1, n)
Rest(f) == Prefix(f, kept[f])
Untouched(f) == content[f] = Generated[f] /\ kept[f] = Len(Generated[f])

FileAt(f) ==
  /\ kept[f] <= Len(Generated[f])
  /\ job[f] # "none" => Selected(f) /\ ~listing
  /\ job[f] \in {"writing", "open"} => result[f] = Rest(f)
  /\ job[f] # "open" => content[f] = Rest(f) \/ Untouched(f)
  /\ job[f] = "open" => \E n \in 0 .. kept[f] : content[f] = Prefix(f, n)
  /\ runs > 0 /\ ~failed /\ ~listing /\ job[f] = "none" => content[f] = Rest(f)

IInv == TypeInv /\ \A f \in Files : FileAt(f)

-------------------------------------------------------------------------------
(* Text *)

\* The replacement keeps the number of references.
LEMMA ReplaceType ==
  ASSUME NEW f \in Files, NEW text \in Seq(STRING)
  PROVE  /\ Replace(text, f.package) \in Seq(STRING)
         /\ Len(Replace(text, f.package)) = Len(text)
<1> DEFINE r == Replace(text, f.package)
<1>1. DOMAIN text = 1 .. Len(text) /\ Len(text) \in Nat /\ \A i \in 1 .. Len(text) : text[i] \in STRING
  OBVIOUS
<1>2. f.package \in STRING BY ReplaceAssumption
<1>3. r = [i \in 1 .. Len(text) |-> IF text[i] = Server THEN f.package ELSE text[i]]
  BY <1>1, Zenon DEF Replace
<1>4. r \in [1 .. Len(text) -> STRING] BY <1>1, <1>2, <1>3
<1>5. r \in Seq(STRING) BY <1>1, <1>4
<1> QED BY <1>1, <1>3, <1>5

\* The text that a file's replacement is made of.
LEMMA ReplacedType ==
  ASSUME NEW f \in Files
  PROVE  Replaced(f) \in Seq(STRING) /\ Len(Replaced(f)) = Len(Generated[f])
<1>1. Generated[f] \in Seq(STRING) BY ReplaceAssumption
<1> QED BY <1>1, ReplaceType DEF Replaced

LEMMA PrefixFacts ==
  ASSUME NEW f \in Files, NEW n \in 0 .. Len(Generated[f])
  PROVE  /\ Prefix(f, n) \in Seq(STRING) /\ Len(Prefix(f, n)) = n
         /\ \A i \in 1 .. n : Prefix(f, n)[i] = Replaced(f)[i]
<1>1. Replaced(f) \in Seq(STRING) /\ Len(Replaced(f)) = Len(Generated[f]) BY ReplacedType
<1>2. Generated[f] \in Seq(STRING) BY ReplaceAssumption
<1>3. \A i \in 1 .. n : Replaced(f)[i] \in STRING BY <1>1, <1>2
<1> QED BY <1>2, <1>3, SubSeqProperties DEF Prefix

\* A prefix of a prefix is a prefix.
LEMMA PrefixOfPrefix ==
  ASSUME NEW f \in Files, NEW n \in 0 .. Len(Generated[f]), NEW k \in 0 .. n
  PROVE  SubSeq(Prefix(f, n), 1, k) = Prefix(f, k)
<1>1. Generated[f] \in Seq(STRING) BY ReplaceAssumption
<1>2. /\ Prefix(f, n) \in Seq(STRING) /\ Len(Prefix(f, n)) = n
      /\ \A i \in 1 .. n : Prefix(f, n)[i] = Replaced(f)[i]
  BY PrefixFacts
<1>3. k \in 0 .. Len(Generated[f]) BY <1>1
<1>4. /\ Prefix(f, k) \in Seq(STRING) /\ Len(Prefix(f, k)) = k
      /\ \A i \in 1 .. k : Prefix(f, k)[i] = Replaced(f)[i]
  BY <1>3, PrefixFacts
<1> DEFINE s == SubSeq(Prefix(f, n), 1, k)
<1>5. \A i \in 1 .. k : Prefix(f, n)[i] \in STRING BY <1>2
<1>6. s \in Seq(STRING) /\ Len(s) = k /\ \A i \in 1 .. k : s[i] = Prefix(f, n)[i]
  BY <1>5, SubSeqProperties
<1>7. \A i \in 1 .. k : s[i] = Prefix(f, k)[i] BY <1>2, <1>4, <1>6
<1> QED BY <1>4, <1>6, <1>7

\* Replacing once more changes nothing in what is left of a replacement.
LEMMA ReplaceAgain ==
  ASSUME NEW f \in Files, Selected(f), NEW n \in 0 .. Len(Generated[f])
  PROVE  Replace(Prefix(f, n), f.package) = Prefix(f, n)
<1> DEFINE p == Prefix(f, n)
<1>1. Generated[f] \in Seq(STRING) BY ReplaceAssumption
<1>2. /\ p \in Seq(STRING) /\ Len(p) = n
      /\ \A i \in 1 .. n : p[i] = Replaced(f)[i]
  BY PrefixFacts
<1>3. Replaced(f) = Replace(Generated[f], f.package) BY DEF Selected, Replaced
<1>4. \A i \in 1 .. n : p[i] = Server => f.package = Server
  <2> TAKE i \in 1 .. n
  <2>1. i \in DOMAIN Generated[f] BY <1>1
  <2>2. Replaced(f)[i] = IF Generated[f][i] = Server THEN f.package ELSE Generated[f][i]
    BY <1>3, <2>1 DEF Replace
  <2> QED BY <1>2, <2>2
<1>5. DOMAIN p = 1 .. n BY <1>2
<1>6. \A i \in 1 .. n : (IF p[i] = Server THEN f.package ELSE p[i]) = p[i] BY <1>4
<1>7. Replace(p, f.package) = [i \in 1 .. n |-> p[i]] BY <1>5, <1>6 DEF Replace
<1>8. p = [i \in 1 .. n |-> p[i]] BY <1>2, <1>5
<1> HIDE DEF p
<1>9. Replace(p, f.package) = p BY <1>7, <1>8
<1> QED BY <1>9 DEF p

\* The whole replacement is what a file as protoc wrote it is replaced by.
LEMMA WholePrefix ==
  ASSUME NEW f \in Files
  PROVE  Prefix(f, Len(Generated[f])) = Replaced(f)
<1>1. Replaced(f) \in Seq(STRING) /\ Len(Replaced(f)) = Len(Generated[f]) BY ReplacedType
<1> QED BY <1>1, SubSeqFull DEF Prefix

-------------------------------------------------------------------------------
(* The invariant *)

LEMMA InitIInv == Init => IInv
<1> SUFFICES ASSUME Init PROVE IInv OBVIOUS
<1>1. Generated \in [Files -> Seq(STRING)] BY ReplaceAssumption
<1>2. \A f \in Files : Generated[f] \in Seq(STRING) /\ Len(Generated[f]) \in Nat BY <1>1
<1>3. TypeInv
  <2>1. <<>> \in Seq(STRING) OBVIOUS
  <2>2. result \in [Files -> Seq(STRING)] BY <2>1 DEF Init
  <2>3. kept \in [Files -> Nat] BY <1>2 DEF Init
  <2> QED BY <1>1, <2>2, <2>3 DEF Init, TypeInv, Jobs
<1>4. ASSUME NEW f \in Files PROVE FileAt(f)
  BY <1>2 DEF Init, FileAt, Untouched
<1> QED BY <1>3, <1>4 DEF IInv

\* A file none of whose variables change keeps what FileAt says of it, unless the
\* directory is listed again.
LEMMA FileKept ==
  ASSUME NEW f \in Files, FileAt(f),
         content'[f] = content[f], job'[f] = job[f], result'[f] = result[f],
         kept'[f] = kept[f], listing' = listing,
         runs' = runs, failed => failed'
  PROVE  FileAt(f)'
BY DEF FileAt, Untouched, Rest, Prefix

\* A step of the callbacks of one file.
LEMMA FileStepIInv ==
  ASSUME IInv, NEW f \in Files, FileStep(f)
  PROVE  IInv'
<1> USE DEF IInv
<1>1. Generated[f] \in Seq(STRING) /\ Len(Generated[f]) \in Nat BY ReplaceAssumption
<1>2. TypeInv /\ FileAt(f) /\ kept[f] \in 0 .. Len(Generated[f])
  BY <1>1 DEF TypeInv, FileAt
<1>3. Rest(f) \in Seq(STRING) /\ Len(Rest(f)) = kept[f] BY <1>2, PrefixFacts DEF Rest
<1>4. \A g \in Files \ {f} : /\ content'[g] = content[g] /\ job'[g] = job[g]
                             /\ result'[g] = result[g] /\ kept'[g] = kept[g]
  BY <1>2 DEF FileStep, Read, ReadFails, Open, OpenFails, Write, Written, WriteFails,
              Goto, Fails, TypeInv
<1>5. listing' = listing /\ runs' = runs /\ failed' \in {failed, TRUE}
  BY DEF FileStep, Read, ReadFails, Open, OpenFails, Write, Written, WriteFails, Goto, Fails
<1>6. ASSUME NEW g \in Files \ {f} PROVE FileAt(g)'
  <2>1. FileAt(g) /\ (failed => failed') BY <1>2, <1>5 DEF TypeInv
  <2> QED BY <1>4, <1>5, <2>1, FileKept
<1>7. SUFFICES TypeInv' /\ FileAt(f)' BY <1>6
<1>8. CASE Read(f)
  <2>1. Replace(content[f], f.package) = Rest(f)
    <3>1. Selected(f) BY <1>2, <1>8 DEF Read, FileAt
    <3>2. CASE content[f] = Rest(f)
      BY <1>2, <3>1, <3>2, ReplaceAgain DEF Rest
    <3>3. CASE Untouched(f)
      BY <3>1, <3>3, WholePrefix DEF Untouched, Rest, Replaced, Selected
    <3> QED BY <1>2, <1>8, <3>2, <3>3 DEF Read, FileAt
  <2>2. result' = [result EXCEPT ![f] = Rest(f)] BY <1>8, <2>1 DEF Read
  <2>3. TypeInv' BY <1>2, <1>3, <1>8, <2>2 DEF Read, Goto, TypeInv, Jobs
  <2>4. FileAt(f)'
    BY <1>2, <1>8, <2>2 DEF Read, Goto, TypeInv, FileAt, Untouched, Rest, Prefix
  <2> QED BY <2>3, <2>4
<1>9. CASE ReadFails(f)
  BY <1>2, <1>9 DEF ReadFails, Fails, Goto, TypeInv, Jobs, FileAt, Untouched, Rest, Prefix
<1>10. CASE Open(f)
  <2>1. TypeInv' BY <1>2, <1>10 DEF Open, Goto, TypeInv, Jobs
  <2>2. <<>> = Prefix(f, 0) BY SubSeqEmpty DEF Prefix
  <2>3. 0 \in 0 .. kept[f] /\ content'[f] = Prefix(f, 0) /\ job'[f] = "open"
    BY <1>2, <1>10, <2>2 DEF Open, Goto, TypeInv
  <2>4. Selected(f) /\ ~listing /\ result[f] = Rest(f)
    BY <1>2, <1>10 DEF Open, FileAt
  <2>5. \E n \in 0 .. kept[f] : content'[f] = Prefix(f, n) BY <2>3
  <2>6. FileAt(f)'
    BY <1>2, <1>10, <2>3, <2>4, <2>5 DEF Open, FileAt, Rest, Prefix
  <2> QED BY <2>1, <2>6
<1>11. CASE OpenFails(f)
  BY <1>2, <1>11 DEF OpenFails, Fails, Goto, TypeInv, Jobs, FileAt, Untouched, Rest, Prefix
<1>12. CASE Write(f)
  <2>1. PICK n \in 0 .. kept[f] : content[f] = Prefix(f, n)
    BY <1>2, <1>12 DEF Write, FileAt
  <2>2. result[f] = Rest(f) BY <1>2, <1>12 DEF Write, FileAt
  <2>3. Len(content[f]) = n BY <1>2, <2>1, PrefixFacts
  <2>4. n + 1 \in 0 .. kept[f] BY <1>2, <1>3, <1>12, <2>2, <2>3 DEF Write
  <2>5. content' = [content EXCEPT ![f] = Prefix(f, n + 1)]
    BY <1>2, <1>12, <2>2, <2>3, <2>4, PrefixOfPrefix DEF Write, Rest
  <2>6. Prefix(f, n + 1) \in Seq(STRING) BY <1>2, <2>4, PrefixFacts
  <2>7. TypeInv' BY <1>2, <1>12, <2>5, <2>6 DEF Write, TypeInv
  <2>8. FileAt(f)'
    BY <1>2, <1>12, <2>4, <2>5 DEF Write, TypeInv, FileAt, Untouched, Rest, Prefix
  <2> QED BY <2>7, <2>8
<1>13. CASE Written(f)
  BY <1>2, <1>13 DEF Written, Goto, TypeInv, Jobs, FileAt, Untouched, Rest, Prefix
<1>14. CASE WriteFails(f)
  <2>1. PICK n \in 0 .. kept[f] : content[f] = Prefix(f, n)
    BY <1>2, <1>14 DEF WriteFails, FileAt
  <2>2. Len(content[f]) = n BY <1>2, <2>1, PrefixFacts
  <2>3. kept' = [kept EXCEPT ![f] = n] /\ content' = content
    BY <1>14, <2>2 DEF WriteFails
  <2>4. TypeInv' BY <1>2, <1>14, <2>3 DEF WriteFails, Fails, Goto, TypeInv, Jobs
  <2>5. FileAt(f)'
    BY <1>2, <1>14, <2>1, <2>3
    DEF WriteFails, Fails, Goto, TypeInv, FileAt, Untouched, Rest, Prefix
  <2> QED BY <2>4, <2>5
<1> QED BY <1>8, <1>9, <1>10, <1>11, <1>12, <1>13, <1>14 DEF FileStep

LEMMA KillIInv == IInv /\ Kill => IInv'
<1> SUFFICES ASSUME IInv, Kill PROVE IInv' OBVIOUS
<1>1. TypeInv /\ \A f \in Files : FileAt(f) BY DEF IInv
<1>2. \A f \in Files : /\ content'[f] = content[f] /\ job'[f] = "none"
                       /\ kept'[f] = IF job[f] = "open" THEN Len(content[f]) ELSE kept[f]
  BY DEF Kill
<1>3. TypeInv'
  <2>1. \A f \in Files : Len(content[f]) \in Nat BY <1>1 DEF TypeInv
  <2> QED BY <1>1, <2>1 DEF Kill, TypeInv, Jobs
<1>4. ASSUME NEW f \in Files PROVE FileAt(f)'
  <2>1. Generated[f] \in Seq(STRING) /\ Len(Generated[f]) \in Nat BY ReplaceAssumption
  <2>2. kept[f] \in 0 .. Len(Generated[f]) BY <1>1, <2>1 DEF TypeInv, FileAt
  <2>3. CASE job[f] = "open"
    <3>1. PICK n \in 0 .. kept[f] : content[f] = Prefix(f, n) BY <1>1, <2>3 DEF FileAt
    <3>2. Len(content[f]) = n BY <2>2, <3>1, PrefixFacts
    <3>3. kept'[f] = n /\ content'[f] = Prefix(f, n) BY <1>2, <2>3, <3>1, <3>2
    <3> QED BY <1>2, <2>2, <3>3 DEF Kill, FileAt, Rest, Prefix
  <2>4. CASE job[f] # "open"
    BY <1>1, <1>2, <2>4 DEF Kill, FileAt, Untouched, Rest, Prefix
  <2> QED BY <2>3, <2>4
<1> QED BY <1>3, <1>4 DEF IInv

LEMMA NextIInv == IInv /\ [Next]_vars => IInv'
<1> SUFFICES ASSUME IInv, [Next]_vars PROVE IInv' OBVIOUS
<1>1. TypeInv /\ \A f \in Files : FileAt(f) BY DEF IInv
<1>2. CASE Start
  <2>1. runs' \in Nat BY <1>1, <1>2 DEF Start, TypeInv
  <2>4. TypeInv' BY <1>1, <1>2, <2>1, Zenon DEF Start, TypeInv
  <2>2. \A f \in Files : job[f] = "none" BY <1>2 DEF Start, Running
  <2>3. ASSUME NEW f \in Files PROVE FileAt(f)'
    BY <1>1, <1>2, <2>2 DEF Start, FileAt, Untouched, Rest, Prefix
  <2> QED BY <2>3, <2>4 DEF IInv
<1>3. CASE ReadDir
  <2>1. TypeInv' BY <1>1, <1>3 DEF ReadDir, TypeInv, Jobs
  <2>2. ASSUME NEW f \in Files PROVE FileAt(f)'
    <3>1. job[f] = "none" BY <1>1, <1>3 DEF ReadDir, FileAt
    <3>2. job'[f] = (IF Selected(f) THEN "reading" ELSE "none") BY <1>3 DEF ReadDir
    <3>3. CASE Selected(f)
      BY <1>1, <1>3, <3>1, <3>2, <3>3 DEF ReadDir, FileAt, Untouched, Rest, Prefix
    <3>4. CASE ~Selected(f)
      <4>1. Untouched(f) => content[f] = Rest(f)
        BY <3>4, WholePrefix DEF Untouched, Rest, Replaced, Selected
      <4> QED BY <1>1, <1>3, <3>1, <3>2, <3>4, <4>1
              DEF ReadDir, FileAt, Untouched, Rest, Prefix
    <3> QED BY <3>3, <3>4
  <2> QED BY <2>1, <2>2 DEF IInv
<1>4. CASE ReadDirFails
  BY <1>1, <1>4 DEF ReadDirFails, IInv, TypeInv, FileAt, Untouched, Rest, Prefix
<1>5. CASE Kill BY <1>5, KillIInv
<1>6. CASE \E f \in Files : FileStep(f) BY <1>6, FileStepIInv
<1>7. CASE UNCHANGED vars
  BY <1>1, <1>7 DEF vars, IInv, TypeInv, FileAt, Untouched, Rest, Prefix
<1> QED BY <1>2, <1>3, <1>4, <1>5, <1>6, <1>7 DEF Next

LEMMA Inductive == Spec => []IInv
BY InitIInv, NextIInv, PTL DEF Spec

-------------------------------------------------------------------------------
(* What the script promises *)

\* Whatever the order of the callbacks, the failures and the runs, every file holds
\* what protoc wrote or what is left of its own replacement.
THEOREM FilesWholeOrKept == Spec => []WholeOrKept
<1>1. IInv => WholeOrKept
  <2> SUFFICES ASSUME IInv, NEW f \in Files
               PROVE  IF job[f] = "open"
                      THEN f.ext = ".js" /\ IsPrefix(content[f], Kept(f, Replaced(f)))
                      ELSE content[f] \in {Generated[f], Kept(f, Replaced(f))}
    BY DEF WholeOrKept
  <2>1. FileAt(f) /\ kept[f] \in Nat BY DEF IInv, TypeInv
  <2>2. Rest(f) = Kept(f, Replaced(f)) BY DEF Rest, Prefix, Kept
  <2>3. CASE job[f] = "open"
    <3>1. PICK n \in 0 .. kept[f] : content[f] = Prefix(f, n) BY <2>1, <2>3 DEF FileAt
    <3>2. Generated[f] \in Seq(STRING) /\ Len(Generated[f]) \in Nat BY ReplaceAssumption
    <3>3. kept[f] \in 0 .. Len(Generated[f]) /\ n \in 0 .. Len(Generated[f])
      BY <2>1, <3>2 DEF FileAt
    <3>4. Len(content[f]) = n /\ Len(Rest(f)) = kept[f] BY <3>1, <3>3, PrefixFacts DEF Rest
    <3>5. SubSeq(Rest(f), 1, n) = Prefix(f, n)
      BY <3>3, PrefixOfPrefix DEF Rest
    <3>6. n \in 0 .. n BY <3>3
    <3>7. SubSeq(content[f], 1, n) = Prefix(f, n)
      BY <3>1, <3>3, <3>6, PrefixOfPrefix
    <3>8. IsPrefix(content[f], Rest(f)) BY <3>1, <3>4, <3>5, <3>7 DEF IsPrefix
    <3> QED BY <2>1, <2>2, <2>3, <3>8 DEF FileAt, Selected
  <2>4. CASE job[f] # "open" BY <2>1, <2>2, <2>4 DEF FileAt, Untouched
  <2> QED BY <2>3, <2>4
<1> QED BY <1>1, Inductive, PTL

\* A run in which nothing fails leaves every file with its replacement.
THEOREM CleanRuns == Spec => []CleanRunReplaces
<1>1. IInv => CleanRunReplaces
  BY DEF IInv, TypeInv, FileAt, CleanRunReplaces, Running, Kept, Rest, Prefix
<1> QED BY <1>1, Inductive, PTL
===============================================================================
