----------------------------- MODULE DiskProofs -----------------------------
(***************************************************************************)
(* Proofs about the disk driver, for any number of threads, sectors and    *)
(* values and any number of interrupts that no command caused: the driver  *)
(* never finds the controller in a state it does not expect, and it is a   *)
(* store on which every call takes effect at one moment.                   *)
(***************************************************************************)
EXTENDS Disk, TLAPS

Labels == {"idle", "acquire", "select", "issue", "down", "busy", "transfer", "release"}
States == {"idle", "reading", "readData", "writing", "writeData", "committing"}

TypeOK ==
    /\ lock \in Threads \cup {NoThread}
    /\ completion_wait \in Nat
    /\ pc \in [Threads -> Labels]
    /\ op \in [Threads -> {"read", "write"}]
    /\ sector \in [Threads -> Sectors]
    /\ buffer \in [Threads -> Values]
    /\ state \in States
    /\ lba \in Sectors
    /\ data \in Values
    /\ platter \in [Sectors -> Values]

Locked == Labels \ {"idle", "acquire"}

(* The channel's lock is held by the thread that is using the controller.   *)
LockHeld == \A t \in Threads : pc[t] \in Locked <=> lock = t

(* The states in which the driver expects the controller at each point of a *)
(* call.  completion_wait says nothing: it may be too high, so a thread may *)
(* look before the controller is done.                                      *)
Expected(t) ==
    CASE pc[t] = "issue" -> {"idle"}
      [] pc[t] \in {"down", "busy"} /\ op[t] = "read" -> {"reading", "readData"}
      [] pc[t] = "busy" /\ op[t] = "write" -> {"writing", "writeData"}
      [] pc[t] = "transfer" /\ op[t] = "read" -> {"readData"}
      [] pc[t] = "transfer" /\ op[t] = "write" -> {"writeData"}
      [] OTHER -> {"idle", "committing"}

(* From the command to the end of its transfer the controller is at the     *)
(* sector of the call.                                                      *)
Addressed(t) ==
    pc[t] \in {"issue", "busy", "transfer"} \/ (pc[t] = "down" /\ op[t] = "read")
      => lba = sector[t]

ControllerOK ==
    /\ lock = NoThread => state \in {"idle", "committing"}
    /\ \A t \in Threads : lock = t => state \in Expected(t) /\ Addressed(t)
    /\ state = "readData" => data = platter[lba]

DiskInv == TypeOK /\ LockHeld /\ ControllerOK
-----------------------------------------------------------------------------
(* The invariant holds of an idle channel.                                  *)
LEMMA InitInv == Init => DiskInv
  <1> SUFFICES ASSUME Init PROVE DiskInv
    OBVIOUS
  <1>1. TypeOK
    BY DEF Init, TypeOK, Labels, States
  <1>2. LockHeld /\ ControllerOK
    BY DiskAssumption DEF Init, LockHeld, ControllerOK, Locked
  <1> QED
    BY <1>1, <1>2 DEF DiskInv

(* The label of a thread that moves, and of the ones that do not.           *)
LEMMA GotoPointwise ==
    ASSUME TypeOK, NEW t \in Threads, NEW l \in Labels, Goto(t, l)
    PROVE  /\ pc' \in [Threads -> Labels]
           /\ \A u \in Threads : pc'[u] = IF u = t THEN l ELSE pc[u]
  BY DEF TypeOK, Goto

(* A step of the thread that holds the channel's lock and keeps it.         *)
LEMMA HolderStep ==
    ASSUME DiskInv, NEW t \in Threads, pc[t] \in Locked, NEW l \in Locked, Goto(t, l),
           lock' = lock, TypeOK',
           state' \in Expected(t)', Addressed(t)',
           state' = "readData" => data' = platter'[lba']
    PROVE  DiskInv'
  <1>1. lock = t /\ t # NoThread
    BY DiskAssumption DEF DiskInv, LockHeld
  <1>2. \A u \in Threads : pc'[u] = IF u = t THEN l ELSE pc[u]
    BY GotoPointwise DEF DiskInv, Locked
  <1>3. LockHeld'
    BY <1>1, <1>2 DEF DiskInv, LockHeld
  <1>4. ControllerOK'
    BY <1>1 DEF ControllerOK
  <1> QED
    BY <1>3, <1>4 DEF DiskInv

(* A step outside the lock: the caller's own variables and pc only.         *)
LEMMA OutsideStep ==
    ASSUME DiskInv, NEW t \in Threads, pc[t] \in {"idle", "acquire"},
           NEW l \in {"idle", "acquire"}, Goto(t, l), TypeOK',
           \A u \in Threads \ {t} : op'[u] = op[u] /\ sector'[u] = sector[u],
           UNCHANGED <<channelVars, deviceVars>>
    PROVE  DiskInv'
  <1>1. \A u \in Threads : pc'[u] = IF u = t THEN l ELSE pc[u]
    BY GotoPointwise DEF DiskInv, Labels
  <1>2. lock' = lock /\ lock # t
    BY DEF DiskInv, LockHeld, Locked, channelVars
  <1>3. LockHeld'
    BY <1>1, <1>2 DEF DiskInv, LockHeld, Locked
  <1>4. \A u \in Threads : lock' = u => Expected(u)' = Expected(u) /\ Addressed(u)' = Addressed(u)
    BY <1>1, <1>2 DEF Expected, Addressed, deviceVars
  <1>5. ControllerOK'
    BY <1>2, <1>4 DEF DiskInv, ControllerOK, deviceVars
  <1> QED
    BY <1>3, <1>5 DEF DiskInv

(* Every step of callers, driver, controller and interrupt handler keeps    *)
(* the invariant.                                                           *)
LEMMA DiskStep == DiskInv /\ [Next]_vars => DiskInv'
  <1> SUFFICES ASSUME DiskInv, [Next]_vars PROVE DiskInv'
    OBVIOUS
  <1>0. TypeOK /\ LockHeld /\ ControllerOK
    BY DEF DiskInv
  <1>1. ASSUME NEW t \in Threads, NEW s \in Sectors, disk_read(t, s) PROVE DiskInv'
    <2>1. TypeOK'
      BY <1>0, <1>1 DEF disk_read, Begin, Goto, TypeOK, Labels, channelVars, deviceVars
    <2> QED
      BY <1>0, <1>1, <2>1, OutsideStep DEF disk_read, Begin, TypeOK
  <1>2. ASSUME NEW t \in Threads, NEW s \in Sectors, NEW v \in Values, disk_write(t, s, v)
        PROVE  DiskInv'
    <2>1. TypeOK'
      BY <1>0, <1>2 DEF disk_write, Begin, Goto, TypeOK, Labels, channelVars, deviceVars
    <2> QED
      BY <1>0, <1>2, <2>1, OutsideStep DEF disk_write, Begin, TypeOK
  <1>3. ASSUME NEW t \in Threads, lock_acquire(t) PROVE DiskInv'
    <2>1. TypeOK'
      BY <1>0, <1>3 DEF lock_acquire, Goto, TypeOK, Labels, deviceVars
    <2>2. \A u \in Threads : pc'[u] = IF u = t THEN "select" ELSE pc[u]
      BY <1>0, <1>3, GotoPointwise DEF lock_acquire, Labels
    <2>3. LockHeld'
      BY <1>0, <1>3, <2>2, DiskAssumption DEF lock_acquire, LockHeld, Locked, Labels
    <2>4. state' \in Expected(t)' /\ Addressed(t)'
      BY <1>0, <1>3, <2>2 DEF lock_acquire, Expected, Addressed, ControllerOK, deviceVars
    <2>5. ControllerOK'
      BY <1>0, <1>3, <2>4, DiskAssumption DEF lock_acquire, ControllerOK, deviceVars
    <2> QED
      BY <2>1, <2>3, <2>5 DEF DiskInv
  <1>4. ASSUME NEW t \in Threads, select_sector(t) PROVE DiskInv'
    <2>1. TypeOK' /\ pc'[t] = "issue"
      BY <1>0, <1>4 DEF select_sector, Goto, TypeOK, Labels, channelVars
    <2>2. state' = "idle"
      BY <1>0, <1>4 DEF select_sector, BSY, DRQ, TypeOK, States
    <2>3. state' \in Expected(t)' /\ Addressed(t)'
      BY <1>4, <2>1, <2>2 DEF select_sector, Expected, Addressed
    <2> QED
      BY <1>4, <2>1, <2>2, <2>3, HolderStep DEF select_sector, Locked, Labels, channelVars
  <1>5. ASSUME NEW t \in Threads, issue_pio_command(t) PROVE DiskInv'
    <2>1. TypeOK' /\ pc'[t] = IF op[t] = "read" THEN "down" ELSE "busy"
      BY <1>0, <1>5 DEF issue_pio_command, Goto, TypeOK, Labels, States
    <2>2. state' = IF op'[t] = "read" THEN "reading" ELSE "writing"
      BY <1>5 DEF issue_pio_command
    <2>3. lock = t /\ lba = sector[t]
      BY <1>0, <1>5 DEF issue_pio_command, LockHeld, Locked, Labels, ControllerOK, Addressed
    <2>4. state' \in Expected(t)' /\ Addressed(t)'
      BY <1>5, <2>1, <2>2, <2>3 DEF issue_pio_command, Expected, Addressed, TypeOK
    <2> QED
      BY <1>5, <2>1, <2>2, <2>4, HolderStep DEF issue_pio_command, Locked, Labels
  <1>6. ASSUME NEW t \in Threads, AwaitCompletion(t) PROVE DiskInv'
    <2>1. TypeOK' /\ pc'[t] = IF op[t] = "read" THEN "busy" ELSE "release"
      BY <1>0, <1>6 DEF AwaitCompletion, Goto, TypeOK, Labels, deviceVars
    <2>2. lock = t /\ state \in Expected(t) /\ Addressed(t)
      BY <1>0, <1>6 DEF AwaitCompletion, LockHeld, Locked, Labels, ControllerOK
    <2>3. state' \in Expected(t)' /\ Addressed(t)'
      BY <1>0, <1>6, <2>1, <2>2 DEF AwaitCompletion, Expected, Addressed, TypeOK, deviceVars
    <2> QED
      BY <1>0, <1>6, <2>1, <2>3, HolderStep
         DEF AwaitCompletion, Locked, Labels, ControllerOK, deviceVars
  <1>7. ASSUME NEW t \in Threads, wait_while_busy(t) PROVE DiskInv'
    <2>1. lock = t /\ state \in Expected(t) /\ Addressed(t)
      BY <1>0, <1>7 DEF wait_while_busy, LockHeld, Locked, Labels, ControllerOK
    <2>2. state = (IF op[t] = "read" THEN "readData" ELSE "writeData") /\ DRQ
      BY <1>0, <1>7, <2>1 DEF wait_while_busy, Expected, BSY, DRQ, TypeOK
    <2>3. Goto(t, "transfer")
      BY <1>7, <2>2 DEF wait_while_busy
    <2>4. TypeOK' /\ pc'[t] = "transfer"
      BY <1>0, <1>7, <2>3 DEF wait_while_busy, Goto, TypeOK, Labels, channelVars, deviceVars
    <2>5. state' \in Expected(t)' /\ Addressed(t)'
      BY <1>0, <1>7, <2>1, <2>2, <2>4
         DEF wait_while_busy, Expected, Addressed, TypeOK, deviceVars
    <2> QED
      BY <1>0, <1>7, <2>3, <2>4, <2>5, HolderStep
         DEF wait_while_busy, Locked, Labels, ControllerOK, channelVars, deviceVars
  <1>8. ASSUME NEW t \in Threads, input_sector(t) PROVE DiskInv'
    <2>1. TypeOK' /\ pc'[t] = "release"
      BY <1>0, <1>8 DEF input_sector, Goto, TypeOK, Labels, States, channelVars
    <2>2. state' \in Expected(t)' /\ Addressed(t)'
      BY <1>8, <2>1 DEF input_sector, Expected, Addressed
    <2> QED
      BY <1>8, <2>1, <2>2, HolderStep DEF input_sector, Locked, Labels, channelVars
  <1>9. ASSUME NEW t \in Threads, output_sector(t) PROVE DiskInv'
    <2>1. TypeOK' /\ pc'[t] = "down"
      BY <1>0, <1>9 DEF output_sector, Goto, TypeOK, Labels, States, channelVars
    <2>2. state' \in Expected(t)' /\ Addressed(t)'
      BY <1>9, <2>1 DEF output_sector, Expected, Addressed
    <2> QED
      BY <1>9, <2>1, <2>2, HolderStep DEF output_sector, Locked, Labels, channelVars
  <1>10. ASSUME NEW t \in Threads, lock_release(t) PROVE DiskInv'
    <2>1. TypeOK'
      BY <1>0, <1>10 DEF lock_release, Goto, TypeOK, Labels, deviceVars
    <2>2. \A u \in Threads : pc'[u] = IF u = t THEN "idle" ELSE pc[u]
      BY <1>0, <1>10, GotoPointwise DEF lock_release, Labels
    <2>3. lock = t /\ state \in {"idle", "committing"}
      BY <1>0, <1>10 DEF lock_release, LockHeld, Locked, Labels, ControllerOK, Expected
    <2>4. LockHeld'
      BY <1>0, <1>10, <2>2, <2>3, DiskAssumption DEF lock_release, LockHeld, Locked
    <2>5. ControllerOK'
      BY <1>0, <1>10, <2>3, DiskAssumption DEF lock_release, ControllerOK, deviceVars
    <2> QED
      BY <2>1, <2>4, <2>5 DEF DiskInv
  <1>11. CASE DeviceStep
    <2>1. TypeOK'
      BY <1>0, <1>11 DEF DeviceStep, TypeOK, States, channelVars, threadVars
    <2>2. LockHeld'
      BY <1>0, <1>11 DEF DeviceStep, LockHeld, channelVars, threadVars
    <2>3. \A t \in Threads : state \in Expected(t) => state' \in Expected(t)'
      BY <1>0, <1>11 DEF DeviceStep, Expected, threadVars
    <2>4. \A t \in Threads : Addressed(t)' <=> Addressed(t)
      BY <1>11 DEF DeviceStep, Addressed, threadVars
    <2>5. ControllerOK'
      BY <1>0, <1>11, <2>3, <2>4 DEF DeviceStep, ControllerOK, channelVars
    <2> QED
      BY <2>1, <2>2, <2>5 DEF DiskInv
  <1>12. CASE Interrupt \/ SpuriousInterrupt
    <2>1. /\ UNCHANGED <<lock, threadVars, state, lba, data, platter>>
          /\ completion_wait' \in Nat
      BY <1>0, <1>12 DEF Interrupt, SpuriousInterrupt, interrupt_handler, TypeOK
    <2> QED
      BY <1>0, <2>1 DEF DiskInv, TypeOK, LockHeld, ControllerOK, Expected, Addressed, threadVars
  <1>13. CASE UNCHANGED vars
    BY <1>0, <1>13 DEF DiskInv, TypeOK, LockHeld, ControllerOK, Expected, Addressed,
                       vars, channelVars, threadVars, deviceVars
  <1> QED
    BY <1>1, <1>2, <1>3, <1>4, <1>5, <1>6, <1>7, <1>8, <1>9, <1>10, <1>11, <1>12, <1>13
       DEF Next, Progress

(* In every behaviour the channel's lock is held from the command to its    *)
(* completion, and what the controller does is what the holder asked for    *)
(* (disk.c).                                                                *)
THEOREM DiskInvariant == Spec => []DiskInv
  BY InitInv, DiskStep, PTL DEF Spec

(* The PANIC calls of disk_read and disk_write are not reached, however     *)
(* many interrupts arrive that the controller did not raise: whoever holds  *)
(* the channel's lock finds DRQ set when the controller is no longer busy.  *)
THEOREM DriverNeverPanics == Spec => []NoPanic
  <1>1. DiskInv => NoPanic
    BY DEF DiskInv, TypeOK, Labels, NoPanic
  <1> QED
    BY <1>1, DiskInvariant, PTL
-----------------------------------------------------------------------------
Calls == [t \in Threads |-> CallOf(t)]

(* A thread inside a call is seen in one by the callers of the driver.      *)
LEMMA InCall ==
    ASSUME TypeOK, NEW t \in Threads, pc[t] # "idle"
    PROVE  Calls[t] # NoCall /\ Calls[t] = CallOf(t)
  <1>1. CallOf(t) \in [op : {"read", "write"}, sector : Sectors,
                       data : Values \cup {NoData}, done : BOOLEAN]
    BY DEF TypeOK, CallOf, Done
  <1> QED
    BY <1>1, DiskAssumption DEF Calls

(* A step of one thread changes what the others have called in nothing.     *)
LEMMA CallFrame ==
    ASSUME TypeOK, NEW t \in Threads, NEW l \in Labels, Goto(t, l),
           \A u \in Threads \ {t} :
              op'[u] = op[u] /\ sector'[u] = sector[u] /\ buffer'[u] = buffer[u]
    PROVE  Calls' = [Calls EXCEPT ![t] = CallOf(t)']
  <1>1. \A u \in Threads \ {t} : CallOf(u)' = CallOf(u)
    BY GotoPointwise DEF CallOf, Done
  <1> QED
    BY <1>1, Zenon DEF Calls

(* A step within a call that has not been performed changes no call.        *)
LEMMA CallStutter ==
    ASSUME TypeOK, NEW t \in Threads, NEW l \in Labels, Goto(t, l),
           UNCHANGED <<op, sector, buffer>>,
           pc[t] # "idle", l # "idle", Done(t)' <=> Done(t)
    PROVE  Calls' = Calls
  <1>1. \A u \in Threads : CallOf(u)' = CallOf(u)
    BY GotoPointwise DEF CallOf, Done
  <1> QED
    BY <1>1 DEF Calls

(* Every step of the driver is a step of the sector store or none.          *)
LEMMA StepRefines ==
    DiskInv /\ [Next]_vars => [SS!StoreNext]_<<Contents, Calls>>
  <1> SUFFICES ASSUME DiskInv, [Next]_vars, UNCHANGED <<Contents, Calls>> => FALSE
               PROVE  SS!StoreNext
    OBVIOUS
  <1>0. TypeOK /\ LockHeld /\ ControllerOK
    BY DEF DiskInv
  <1>1. ASSUME NEW t \in Threads, NEW s \in Sectors, disk_read(t, s) PROVE SS!StoreNext
    <2>1. Calls' = [Calls EXCEPT ![t] = CallOf(t)'] /\ pc'[t] = "acquire"
      BY <1>0, <1>1, CallFrame, GotoPointwise DEF disk_read, Begin, TypeOK, Labels
    <2>2. CallOf(t)' = [op |-> "read", sector |-> s, data |-> NoData, done |-> FALSE]
      BY <1>0, <1>1, <2>1, Zenon DEF disk_read, Begin, CallOf, Done, TypeOK
    <2>3. CallOf(t)' \in SS!NewCalls
      BY <2>2 DEF SS!NewCalls
    <2>4. Calls[t] = NoCall /\ Contents' = Contents
      BY <1>1 DEF disk_read, Begin, Calls, CallOf, Contents, deviceVars
    <2> QED
      BY <2>1, <2>3, <2>4, Zenon DEF SS!StoreNext, SS!Invoke, Calls
  <1>2. ASSUME NEW t \in Threads, NEW s \in Sectors, NEW v \in Values, disk_write(t, s, v)
        PROVE  SS!StoreNext
    <2>1. Calls' = [Calls EXCEPT ![t] = CallOf(t)'] /\ pc'[t] = "acquire"
      BY <1>0, <1>2, CallFrame, GotoPointwise DEF disk_write, Begin, TypeOK, Labels
    <2>2. CallOf(t)' = [op |-> "write", sector |-> s, data |-> v, done |-> FALSE]
      BY <1>0, <1>2, <2>1, Zenon DEF disk_write, Begin, CallOf, Done, TypeOK
    <2>3. CallOf(t)' \in SS!NewCalls
      BY <2>2 DEF SS!NewCalls
    <2>4. Calls[t] = NoCall /\ Contents' = Contents
      BY <1>2 DEF disk_write, Begin, Calls, CallOf, Contents, deviceVars
    <2> QED
      BY <2>1, <2>3, <2>4, Zenon DEF SS!StoreNext, SS!Invoke, Calls
  <1>3. ASSUME NEW t \in Threads, lock_acquire(t) PROVE FALSE
    <2>1. Calls' = Calls
      BY <1>0, <1>3, CallStutter, GotoPointwise DEF lock_acquire, Labels, Done
    <2>2. Contents' = Contents
      BY <1>3 DEF lock_acquire, Contents, deviceVars
    <2> QED
      BY <2>1, <2>2
  <1>4. ASSUME NEW t \in Threads, select_sector(t) PROVE FALSE
    <2>1. Calls' = Calls
      BY <1>0, <1>4, CallStutter, GotoPointwise DEF select_sector, Labels, Done
    <2>2. Contents' = Contents
      BY <1>4 DEF select_sector, Contents, BSY
    <2> QED
      BY <2>1, <2>2
  <1>5. ASSUME NEW t \in Threads, issue_pio_command(t) PROVE FALSE
    <2>1. Calls' = Calls
      BY <1>0, <1>5, CallStutter, GotoPointwise DEF issue_pio_command, Labels, Done, TypeOK
    <2>2. state = "idle"
      BY <1>0, <1>5 DEF issue_pio_command, LockHeld, Locked, Labels, ControllerOK, Expected
    <2>3. Contents' = Contents
      BY <1>5, <2>2 DEF issue_pio_command, Contents
    <2> QED
      BY <2>1, <2>3
  <1>6. ASSUME NEW t \in Threads, AwaitCompletion(t) PROVE FALSE
    <2>1. Calls' = Calls
      BY <1>0, <1>6, CallStutter, GotoPointwise DEF AwaitCompletion, Labels, Done, TypeOK
    <2>2. Contents' = Contents
      BY <1>6 DEF AwaitCompletion, Contents, deviceVars
    <2> QED
      BY <2>1, <2>2
  <1>7. ASSUME NEW t \in Threads, wait_while_busy(t) PROVE FALSE
    <2>1. Goto(t, "transfer")
      BY <1>0, <1>7 DEF wait_while_busy, LockHeld, Locked, Labels, ControllerOK, Expected,
                        BSY, DRQ, TypeOK
    <2>2. Calls' = Calls
      BY <1>0, <1>7, <2>1, CallStutter, GotoPointwise DEF wait_while_busy, Labels, Done
    <2>3. Contents' = Contents
      BY <1>7 DEF wait_while_busy, Contents, deviceVars
    <2> QED
      BY <2>2, <2>3
  (* A read takes effect when the controller's data is taken.                *)
  <1>8. ASSUME NEW t \in Threads, input_sector(t) PROVE SS!StoreNext
    <2>1. Calls' = [Calls EXCEPT ![t] = CallOf(t)'] /\ pc'[t] = "release"
      BY <1>0, <1>8, CallFrame, GotoPointwise DEF input_sector, TypeOK, Labels
    <2>2. state = "readData" /\ lba = sector[t] /\ data = platter[sector[t]]
      BY <1>0, <1>8 DEF input_sector, LockHeld, Locked, Labels, ControllerOK, Expected, Addressed
    <2>3. CallOf(t) = [op |-> "read", sector |-> sector[t], data |-> NoData, done |-> FALSE]
      BY <1>8, Zenon DEF input_sector, CallOf, Done
    <2>4. CallOf(t)' = [op |-> "read", sector |-> sector[t], data |-> Contents[sector[t]],
                        done |-> TRUE]
      BY <1>0, <1>8, <2>1, <2>2, Zenon DEF input_sector, CallOf, Done, Contents, TypeOK
    <2>5. Contents' = Contents
      BY <1>8, <2>2 DEF input_sector, Contents
    <2>6. Calls[t] # NoCall /\ Calls[t] = CallOf(t)
      BY <1>0, <1>8, InCall DEF input_sector
    <2>7. CallOf(t)' = SS!Performed(Calls[t], Contents[Calls[t].sector])
      BY <2>3, <2>4, <2>6 DEF SS!Performed
    <2>8. Calls[t].op = "read" /\ ~Calls[t].done
      BY <2>3, <2>6
    <2>9. SS!Perform(t)
      BY <2>1, <2>5, <2>6, <2>7, <2>8, Zenon DEF SS!Perform, Calls
    <2> QED
      BY <2>9 DEF SS!StoreNext
  (* A write does when the controller has taken its last word.               *)
  <1>9. ASSUME NEW t \in Threads, output_sector(t) PROVE SS!StoreNext
    <2>1. Calls' = [Calls EXCEPT ![t] = CallOf(t)'] /\ pc'[t] = "down"
      BY <1>0, <1>9, CallFrame, GotoPointwise DEF output_sector, TypeOK, Labels
    <2>2. state = "writeData" /\ lba = sector[t]
      BY <1>0, <1>9 DEF output_sector, LockHeld, Locked, Labels, ControllerOK, Expected, Addressed
    <2>3. CallOf(t) = [op |-> "write", sector |-> sector[t], data |-> buffer[t], done |-> FALSE]
      BY <1>9, Zenon DEF output_sector, CallOf, Done
    <2>4. CallOf(t)' = [op |-> "write", sector |-> sector[t], data |-> buffer[t], done |-> TRUE]
      BY <1>9, <2>1, Zenon DEF output_sector, CallOf, Done
    <2>5. Contents' = [Contents EXCEPT ![sector[t]] = buffer[t]]
      BY <1>9, <2>2, Zenon DEF output_sector, Contents
    <2>6. Calls[t] # NoCall /\ Calls[t] = CallOf(t)
      BY <1>0, <1>9, InCall DEF output_sector
    <2>7. CallOf(t)' = SS!Performed(Calls[t], Calls[t].data)
      BY <2>3, <2>4, <2>6 DEF SS!Performed
    <2>8. /\ Calls[t].op = "write" /\ ~Calls[t].done
          /\ Calls[t].sector = sector[t] /\ Calls[t].data = buffer[t]
      BY <2>3, <2>6
    <2>9. SS!Perform(t)
      BY <2>1, <2>5, <2>6, <2>7, <2>8, Zenon DEF SS!Perform, Calls
    <2> QED
      BY <2>9 DEF SS!StoreNext
  <1>10. ASSUME NEW t \in Threads, lock_release(t) PROVE SS!StoreNext
    <2>1. Calls' = [Calls EXCEPT ![t] = CallOf(t)'] /\ pc'[t] = "idle"
      BY <1>0, <1>10, CallFrame, GotoPointwise DEF lock_release, TypeOK, Labels
    <2>2. CallOf(t)' = NoCall /\ CallOf(t).done
      BY <1>10, <2>1, ZenonT(40) DEF lock_release, CallOf, Done
    <2>3. Calls[t] # NoCall /\ Calls[t] = CallOf(t)
      BY <1>0, <1>10, InCall DEF lock_release
    <2>4. Contents' = Contents
      BY <1>10 DEF lock_release, Contents, deviceVars
    <2> QED
      BY <2>1, <2>2, <2>3, <2>4, Zenon DEF SS!StoreNext, SS!Return, Calls
  <1>11. CASE DeviceStep
    <2>1. Calls' = Calls
      BY <1>11 DEF DeviceStep, Calls, CallOf, Done, threadVars
    <2>2. Contents' = Contents
      BY <1>0, <1>11 DEF DeviceStep, Contents, TypeOK
    <2> QED
      BY <2>1, <2>2
  <1>12. CASE Interrupt \/ SpuriousInterrupt
    <2>1. UNCHANGED <<threadVars, state, lba, data, platter>>
      BY <1>12 DEF Interrupt, SpuriousInterrupt
    <2> QED
      BY <2>1 DEF Calls, CallOf, Done, Contents, threadVars
  <1>13. CASE UNCHANGED vars
    BY <1>13 DEF Calls, CallOf, Done, Contents, vars, threadVars, deviceVars
  <1> QED
    BY <1>1, <1>2, <1>3, <1>4, <1>5, <1>6, <1>7, <1>8, <1>9, <1>10, <1>11, <1>12, <1>13
       DEF Next, Progress

(* disk_read and disk_write synchronize access to the disks themselves:     *)
(* with any number of threads, and with interrupts that no command caused,  *)
(* every call takes effect once, on its own sector, between its start and   *)
(* its return.                                                              *)
THEOREM DiskIsSectorStore == Spec => DiskRefinement
  <1>1. Init => SS!StoreInit
    <2> SUFFICES ASSUME Init PROVE SS!StoreInit
      OBVIOUS
    <2>1. Contents \in [Sectors -> Values]
      BY DEF Init, Contents
    <2>2. [t \in Threads |-> CallOf(t)] = [t \in Threads |-> NoCall]
      BY DEF Init, CallOf
    <2> QED
      BY <2>1, <2>2 DEF SS!StoreInit
  <1>2. DiskInv /\ [Next]_vars
          => [SS!StoreNext]_<<Contents, [t \in Threads |-> CallOf(t)]>>
    BY StepRefines DEF Calls
  <1> QED
    BY <1>1, <1>2, DiskInvariant, PTL DEF Spec, DiskRefinement, SS!Spec
=============================================================================
