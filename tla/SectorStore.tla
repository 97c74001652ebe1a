---------------------------- MODULE SectorStore -----------------------------
(***************************************************************************)
(* What a store of sectors promises the threads that use it: a call takes  *)
(* effect once, at one moment between its start and its return.  A read    *)
(* then sees the latest write of its sector.                               *)
(***************************************************************************)
CONSTANTS Threads, Sectors, Values, NoCall,
          NoData   \* what a read brings back before it is performed

VARIABLES store,   \* the contents of each sector
          call     \* each thread's call in progress

NewCalls ==
    [op : {"read"}, sector : Sectors, data : {NoData}, done : {FALSE}]
      \cup [op : {"write"}, sector : Sectors, data : Values, done : {FALSE}]

StoreInit ==
    /\ store \in [Sectors -> Values]
    /\ call = [t \in Threads |-> NoCall]

Invoke(t, c) ==
    /\ call[t] = NoCall
    /\ call' = [call EXCEPT ![t] = c]
    /\ UNCHANGED store

(* The call c once it has taken effect, with what it leaves in the buffer.   *)
Performed(c, d) == [op |-> c.op, sector |-> c.sector, data |-> d, done |-> TRUE]

Perform(t) ==
    /\ call[t] # NoCall /\ ~call[t].done
    /\ LET c == call[t]
       IN  IF c.op = "write"
           THEN /\ store' = [store EXCEPT ![c.sector] = c.data]
                /\ call' = [call EXCEPT ![t] = Performed(c, c.data)]
           ELSE /\ call' = [call EXCEPT ![t] = Performed(c, store[c.sector])]
                /\ UNCHANGED store

Return(t) ==
    /\ call[t] # NoCall /\ call[t].done
    /\ call' = [call EXCEPT ![t] = NoCall]
    /\ UNCHANGED store

StoreNext ==
    \E t \in Threads :
        (\E c \in NewCalls : Invoke(t, c)) \/ Perform(t) \/ Return(t)

Spec == StoreInit /\ [][StoreNext]_<<store, call>>
=============================================================================
