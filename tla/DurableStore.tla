---------------------------- MODULE DurableStore ----------------------------
(***************************************************************************)
(* What the buffer cache promises its users: a store of sectors on which   *)
(* every read and write takes effect at one moment between its call and    *)
(* its return.  A flush makes what the store holds durable; a crash may    *)
(* take each sector back to any value it was given since the last flush,   *)
(* and not further.                                                        *)
(***************************************************************************)
EXTENDS Naturals

CONSTANTS Threads, Sectors, Values, NoCall, NoData

VARIABLES store, call,
          may      \* sector |-> the values a crash may leave in it

NewCalls ==
    [op : {"read"}, sector : Sectors, data : {NoData}, done : {FALSE}]
      \cup [op : {"write"}, sector : Sectors, data : Values, done : {FALSE}]

StoreInit ==
    /\ store \in [Sectors -> Values]
    /\ call = [t \in Threads |-> NoCall]
    /\ may = [s \in Sectors |-> {store[s]}]

Invoke(t) ==
    /\ call[t] = NoCall
    /\ call'[t] \in NewCalls
    /\ call' = [call EXCEPT ![t] = call'[t]]
    /\ UNCHANGED <<store, may>>

(* The call c once it has taken effect, with what it leaves in the buffer.   *)
Performed(c, d) == [op |-> c.op, sector |-> c.sector, data |-> d, done |-> TRUE]

PerformRead(t) ==
    /\ call[t] # NoCall /\ call[t].op = "read" /\ ~call[t].done
    /\ call' = [call EXCEPT ![t] = Performed(call[t], store[call[t].sector])]
    /\ UNCHANGED <<store, may>>

PerformWrite(t) ==
    /\ call[t] # NoCall /\ call[t].op = "write" /\ ~call[t].done
    /\ store' = [store EXCEPT ![call[t].sector] = call[t].data]
    /\ may' = [may EXCEPT ![call[t].sector] = @ \cup {call[t].data}]
    /\ call' = [call EXCEPT ![t] = Performed(call[t], call[t].data)]

Return(t) ==
    /\ call[t] # NoCall /\ call[t].done
    /\ call' = [call EXCEPT ![t] = NoCall]
    /\ UNCHANGED <<store, may>>

Flush ==
    /\ may' = [s \in Sectors |-> {store[s]}]
    /\ UNCHANGED <<store, call>>

Crash ==
    /\ \A s \in Sectors : store'[s] \in may[s]
    /\ may' = [s \in Sectors |-> {store'[s]}]
    /\ call' = [t \in Threads |-> NoCall]

StoreNext ==
    \/ \E t \in Threads : Invoke(t) \/ PerformRead(t) \/ PerformWrite(t) \/ Return(t)
    \/ Flush
    \/ Crash

Spec == StoreInit /\ [][StoreNext]_<<store, call, may>>
=============================================================================
