-------------------------------- MODULE AutoId --------------------------------
(***************************************************************************)
(* RedisOps.autoId: ids drawn from a counter in Redis with GET, SET and    *)
(* INCR, each a command of its own.  Several processes draw from one key;  *)
(* Redis runs one command at a time, in any order of theirs, and a process *)
(* may crash between two.  INCR of a value that is no number, or that is   *)
(* the largest one, is refused with a JedisDataException.                  *)
(***************************************************************************)
EXTENDS Naturals

CONSTANTS
  Procs,    \* processes
  MaxCalls, \* bound on the calls of each
  MaxValue, \* the largest value of a counter, 2^63 - 1 in Redis
  Null,     \* no value
  Junk      \* a value that is no number

ASSUME AutoIdAssumption ==
  /\ MaxCalls \in Nat /\ MaxValue \in Nat \ {0, 1}
  /\ {Null, Junk} \cap Nat = {} /\ Null # Junk

VARIABLES
  value, \* of the key
  at,    \* per process, where its call is
  sid,   \* per process, sid of its call
  calls, \* history: per process, its calls
  reset, \* history: per process, whether a SET was run since its call began
  high,  \* history: the highest id of the calls that returned, 0 at every SET
  floor  \* history: per process, high when its call began, 0 at every SET

autoIdVars == <<value, at, sid, calls, reset, high, floor>>

AutoIdInit ==
  /\ value \in {Null, Junk} \cup 1 .. MaxValue
  /\ at = [p \in Procs |-> "idle"] /\ sid = [p \in Procs |-> Null]
  /\ calls = [p \in Procs |-> 0] /\ reset = [p \in Procs |-> FALSE]
  /\ high = 0 /\ floor = [p \in Procs |-> 0]

Step(p, from, to) == at[p] = from /\ at' = [at EXCEPT ![p] = to]

Set == /\ value' = 1
       /\ reset' = [p \in Procs |-> TRUE]
       /\ high' = 0 /\ floor' = [p \in Procs |-> 0]

Refused == value = Junk \/ value = MaxValue
-------------------------------------------------------------------------------
Begin(p) == /\ calls[p] < MaxCalls /\ Step(p, "idle", "get")
            /\ calls' = [calls EXCEPT ![p] = @ + 1]
            /\ reset' = [reset EXCEPT ![p] = FALSE]
            /\ floor' = [floor EXCEPT ![p] = high]
            /\ UNCHANGED <<value, sid, high>>

Get(p) == /\ Step(p, "get", IF value = Null THEN "set" ELSE "incr")
          /\ sid' = [sid EXCEPT ![p] = value]
          /\ UNCHANGED <<value, calls, reset, high, floor>>

SetOne(p, from, to) == /\ Step(p, from, to) /\ Set
                       /\ sid' = [sid EXCEPT ![p] = 1]
                       /\ UNCHANGED calls

\* Mutation: the id is returned without an INCR.
NoIncr(p, from, to) == Step(p, from, to) /\ UNCHANGED <<value, sid, calls, reset, high, floor>>
Incr(p, from, to) ==
  /\ ~Refused /\ Step(p, from, to)
  /\ value' = IF value = Null THEN 1 ELSE value + 1
  /\ UNCHANGED <<sid, calls, reset, high, floor>>

IncrRefused(p, from, to) ==
  Refused /\ Step(p, from, to) /\ UNCHANGED <<value, sid, calls, reset, high, floor>>

Return(p) == /\ Step(p, "return", "idle")
             /\ high' = IF reset[p] THEN high ELSE IF high > sid[p] THEN high ELSE sid[p]
             /\ UNCHANGED <<value, sid, calls, reset, floor>>

\* The process crashes during the call and is started again.
Crash(p) == /\ at[p] # "idle"
            /\ at' = [at EXCEPT ![p] = "idle"]
            /\ UNCHANGED <<value, sid, calls, reset, high, floor>>

autoId(p) ==
  \/ Get(p) \/ SetOne(p, "set", "incr")
  \/ Incr(p, "incr", "return") \/ IncrRefused(p, "incr", "setAgain")
  \/ SetOne(p, "setAgain", "incrAgain")
  \/ Incr(p, "incrAgain", "return") \/ IncrRefused(p, "incrAgain", "idle")
  \/ Return(p)

AutoIdNext == \E p \in Procs : Begin(p) \/ autoId(p) \/ Crash(p)

AutoIdSpec == AutoIdInit /\ [][AutoIdNext]_autoIdVars
-------------------------------------------------------------------------------
\* A call returns a number greater than all that were returned before it began, however
\* the commands of several calls interleave and whoever crashes between two, unless one
\* of the calls had to SET the key, because it was missing, no number or at its maximum.
LaterIsGreater ==
  \A p \in Procs :
    at[p] = "return" /\ ~reset[p] => sid[p] \in Nat /\ sid[p] > floor[p]
===============================================================================
