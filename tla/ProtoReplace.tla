---------------------------- MODULE ProtoReplace -----------------------------
(***************************************************************************)
(* src/proto/replace.js, the last step of client_protobuf_generator.bat:   *)
(* in every .js file of assets/proto it puts the name of the file's own    *)
(* package for each reference to com.seeu.framework.websocket.  A file is  *)
(* the sequence of the packages it refers to.  The callbacks of node run   *)
(* one at a time, in whatever order the disk answers; the disk may refuse  *)
(* a read or a write, writeFile truncates the file before it writes, and   *)
(* the process may be killed.                                              *)
(***************************************************************************)
EXTENDS Naturals, SequencesExt

CONSTANTS
  Files,     \* the names in the directory, as [package, ext]: wsMsg_pb.js is of wsMsg
  Generated, \* what the files hold after protoc
  Server,    \* com.seeu.framework.websocket
  MaxRuns    \* bound on the runs of the script

ASSUME ReplaceAssumption == /\ \A f \in Files : f.package \in STRING
                            /\ Generated \in [Files -> Seq(STRING)]

VARIABLES
  content,  \* the files
  job,      \* where the callbacks of each file are: "none", "reading", "writing", "open"
  result,   \* the text each file's writeFile was given
  listing,  \* the readdir of the running script has not answered yet
  runs,     \* the runs so far
  failed,   \* history: the disk refused something in this run, or it was killed
  kept      \* history: how much of each file the runs that were cut off writing it left

vars == <<content, job, result, listing, runs, failed, kept>>

Init == /\ content = Generated
        /\ job = [f \in Files |-> "none"]
        /\ result = [f \in Files |-> <<>>]
        /\ listing = FALSE /\ runs = 0
        /\ failed = FALSE
        /\ kept = [f \in Files |-> Len(Generated[f])]

Running == listing \/ \E f \in Files : job[f] # "none"

\* node replace.js
Start == /\ ~Running /\ runs < MaxRuns
         /\ listing' = TRUE /\ runs' = runs + 1 /\ failed' = FALSE
         /\ UNCHANGED <<content, job, result, kept>>

Selected(f) == f.ext = ".js"

\* The callback of readdir: reads are begun for all the files there are.
ReadDir == /\ listing /\ listing' = FALSE
           /\ job' = [f \in Files |-> IF Selected(f) THEN "reading" ELSE "none"]
           /\ UNCHANGED <<content, result, runs, failed, kept>>

ReadDirFails == /\ listing /\ listing' = FALSE /\ failed' = TRUE
                /\ UNCHANGED <<content, job, result, runs, kept>>

\* Mutation: replace without the g flag.
ReplaceFirst(text, package) ==
  LET at == SelectInSeq(text, LAMBDA of : of = Server)
  IN  IF at = 0 THEN text ELSE [text EXCEPT ![at] = package]
Replace(text, package) ==
  [i \in DOMAIN text |-> IF text[i] = Server THEN package ELSE text[i]]

Goto(f, state) == job' = [job EXCEPT ![f] = state]
Fails(f) == Goto(f, "none") /\ failed' = TRUE

\* Mutation: the text is in a variable that all the callbacks share.
ReadShared(f) ==
  /\ job[f] = "reading" /\ Goto(f, "writing")
  /\ result' = [g \in Files |-> Replace(content[f], f.package)]
  /\ UNCHANGED <<content, listing, runs, failed, kept>>
\* The callback of readFile: writeFile is begun with the result.
Read(f) == /\ job[f] = "reading" /\ Goto(f, "writing")
           /\ result' = [result EXCEPT ![f] = Replace(content[f], f.package)]
           /\ UNCHANGED <<content, listing, runs, failed, kept>>

ReadFails(f) == /\ job[f] = "reading" /\ Fails(f)
                /\ UNCHANGED <<content, result, listing, runs, kept>>

\* writeFile opens the file, which empties it, and writes; each may fail.
Open(f) == /\ job[f] = "writing" /\ Goto(f, "open")
           /\ content' = [content EXCEPT ![f] = <<>>]
           /\ UNCHANGED <<result, listing, runs, failed, kept>>

OpenFails(f) == /\ job[f] = "writing" /\ Fails(f)
                /\ UNCHANGED <<content, result, listing, runs, kept>>

Write(f) == LET n == Len(content[f])
            IN  /\ job[f] = "open" /\ n < Len(result[f])
                /\ content' = [content EXCEPT ![f] = SubSeq(result[f], 1, n + 1)]
                /\ UNCHANGED <<job, result, listing, runs, failed, kept>>

\* The callback of writeFile.
Written(f) == /\ job[f] = "open" /\ content[f] = result[f] /\ Goto(f, "none")
              /\ UNCHANGED <<content, result, listing, runs, failed, kept>>

WriteFails(f) == /\ job[f] = "open" /\ Fails(f)
                 /\ kept' = [kept EXCEPT ![f] = Len(content[f])]
                 /\ UNCHANGED <<content, result, listing, runs>>

\* The process is killed: a write that has begun stays as far as it went.
Kill == /\ Running
        /\ listing' = FALSE /\ failed' = TRUE
        /\ job' = [f \in Files |-> "none"]
        /\ kept' = [f \in Files |-> IF job[f] = "open" THEN Len(content[f]) ELSE kept[f]]
        /\ UNCHANGED <<content, result, runs>>

FileStep(f) == \/ Read(f) \/ ReadFails(f) \/ Open(f) \/ OpenFails(f)
               \/ Write(f) \/ Written(f) \/ WriteFails(f)

Next == \/ Start \/ ReadDir \/ ReadDirFails \/ Kill
        \/ \E f \in Files : FileStep(f)

Spec == Init /\ [][Next]_vars
-------------------------------------------------------------------------------
Kept(f, text) == SubSeq(text, 1, kept[f])
Replaced(f) ==
  IF f.ext = ".js" THEN Replace(Generated[f], f.package) ELSE Generated[f]

\* Whatever the order of the callbacks, whatever fails and however often the script
\* is run again, a file holds what protoc wrote or all of its replacement; one that
\* was cut off in writing holds that much of its replacement, and no run brings the
\* rest back.  No text of another file gets in, and no file but .js is touched.
WholeOrKept ==
  \A f \in Files :
    IF job[f] = "open" THEN f.ext = ".js" /\ IsPrefix(content[f], Kept(f, Replaced(f)))
    ELSE content[f] \in {Generated[f], Kept(f, Replaced(f))}

\* After a run without a failure no file refers to the server's package, whatever
\* earlier runs left.
CleanRunReplaces ==
  runs > 0 /\ ~Running /\ ~failed =>
    \A f \in Files : content[f] = Kept(f, Replaced(f))
==============================================================================
