-------------------------------- MODULE Disk --------------------------------
(***************************************************************************)
(* The ATA driver of devices/disk.c: threads that read and write sectors   *)
(* through one channel, its controller, and its interrupt handler.         *)
(*                                                                         *)
(* The channel's lock and semaphore are used through what module Synch     *)
(* shows of them: a lock has one owner, and sema_down takes one unit of a  *)
(* positive value.  Threads are preempted anywhere, so their steps mix     *)
(* with each other, with the controller and with interrupts.               *)
(*                                                                         *)
(* A sector stands for a sector of either disk on the channel: the device  *)
(* bit is part of the address the driver writes to the controller.         *)
(***************************************************************************)
EXTENDS Naturals

CONSTANTS Threads, Sectors, Values,
          NoThread, NoCall, NoData,
          MaxSpurious   \* bound: interrupts the controller did not raise

ASSUME DiskAssumption ==
    /\ NoThread \notin Threads
    /\ NoCall \notin [op : {"read", "write"}, sector : Sectors,
                      data : Values \cup {NoData}, done : BOOLEAN]
    /\ MaxSpurious \in Nat

VARIABLES
    lock, completion_wait, expecting_interrupt,   \* struct channel
    pc, op, sector, buffer,                       \* each thread's call
    state, lba, data, irq, platter,               \* the controller
    spurious                                      \* counts against MaxSpurious

channelVars == <<lock, completion_wait, expecting_interrupt>>
threadVars == <<pc, op, sector, buffer>>
deviceVars == <<state, lba, data, irq, platter>>
vars == <<channelVars, threadVars, deviceVars, spurious>>

(* The status register, by what the controller is doing.                    *)
BSY == state \in {"reading", "writing", "committing"}
DRQ == state \in {"readData", "writeData"}

Init ==
    /\ lock = NoThread
    /\ completion_wait = 0
    /\ expecting_interrupt = FALSE
    /\ pc = [t \in Threads |-> "idle"]
    /\ op = [t \in Threads |-> "read"]
    /\ sector \in {[t \in Threads |-> s] : s \in Sectors}
    /\ buffer \in {[t \in Threads |-> v] : v \in Values}
    /\ state = "idle"
    /\ lba \in Sectors
    /\ data \in Values
    /\ irq = FALSE
    /\ platter \in [Sectors -> Values]
    /\ spurious = 0

Goto(t, label) == pc' = [pc EXCEPT ![t] = label]
-----------------------------------------------------------------------------
Begin(t, o, s) ==
    /\ pc[t] = "idle"
    /\ op' = [op EXCEPT ![t] = o]
    /\ sector' = [sector EXCEPT ![t] = s]
    /\ Goto(t, "acquire")
    /\ UNCHANGED <<channelVars, deviceVars, spurious>>

disk_read(t, s) == Begin(t, "read", s) /\ UNCHANGED buffer

(* The caller's buffer holds v.                                             *)
disk_write(t, s, v) == Begin(t, "write", s) /\ buffer' = [buffer EXCEPT ![t] = v]

AcquireWithoutLock(t) ==
    /\ pc[t] = "acquire"
    /\ lock' = t
    /\ Goto(t, "select")
    /\ UNCHANGED <<completion_wait, expecting_interrupt, op, sector, buffer,
                   deviceVars, spurious>>

lock_acquire(t) ==
    /\ pc[t] = "acquire"
    /\ lock = NoThread
    /\ lock' = t
    /\ Goto(t, "select")
    /\ UNCHANGED <<completion_wait, expecting_interrupt, op, sector, buffer,
                   deviceVars, spurious>>

(* select_device_wait () reads the status register until neither bit is     *)
(* set, which also clears a pending interrupt.                              *)
select_sector(t) ==
    /\ pc[t] = "select"
    /\ ~BSY /\ ~DRQ
    /\ irq' = FALSE
    /\ lba' = sector[t]
    /\ Goto(t, "issue")
    /\ UNCHANGED <<channelVars, op, sector, buffer, state, data, platter, spurious>>

IssueThenDown(t) ==
    /\ pc[t] = "issue"
    /\ expecting_interrupt' = TRUE
    /\ state' = IF op[t] = "read" THEN "reading" ELSE "writing"
    /\ Goto(t, "down")
    /\ UNCHANGED <<lock, completion_wait, op, sector, buffer, lba, data, irq,
                   platter, spurious>>

issue_pio_command(t) ==
    /\ pc[t] = "issue"
    /\ expecting_interrupt' = TRUE
    /\ state' = IF op[t] = "read" THEN "reading" ELSE "writing"
    /\ Goto(t, IF op[t] = "read" THEN "down" ELSE "busy")
    /\ UNCHANGED <<lock, completion_wait, op, sector, buffer, lba, data, irq,
                   platter, spurious>>

(* sema_down (&c->completion_wait): before the transfer of a read, after    *)
(* that of a write.                                                         *)
AwaitCompletion(t) ==
    /\ pc[t] = "down"
    /\ completion_wait > 0
    /\ completion_wait' = completion_wait - 1
    /\ Goto(t, IF op[t] = "read" THEN "busy" ELSE "release")
    /\ UNCHANGED <<lock, expecting_interrupt, op, sector, buffer, deviceVars, spurious>>

TransferAtOnce(t) ==
    /\ pc[t] = "busy"
    /\ Goto(t, "transfer")
    /\ UNCHANGED <<channelVars, op, sector, buffer, deviceVars, spurious>>

(* The alternate status register leaves a pending interrupt alone.          *)
wait_while_busy(t) ==
    /\ pc[t] = "busy"
    /\ ~BSY
    /\ Goto(t, IF DRQ THEN "transfer" ELSE "panic")
    /\ UNCHANGED <<channelVars, op, sector, buffer, deviceVars, spurious>>

(* The controller clears DRQ when the last word is read.                    *)
input_sector(t) ==
    /\ pc[t] = "transfer"
    /\ op[t] = "read"
    /\ buffer' = [buffer EXCEPT ![t] = data]
    /\ state' = "idle"
    /\ Goto(t, "release")
    /\ UNCHANGED <<channelVars, op, sector, lba, data, irq, platter, spurious>>

output_sector(t) ==
    /\ pc[t] = "transfer"
    /\ op[t] = "write"
    /\ data' = buffer[t]
    /\ state' = "committing"
    /\ Goto(t, "down")
    /\ UNCHANGED <<channelVars, op, sector, buffer, lba, irq, platter, spurious>>

lock_release(t) ==
    /\ pc[t] = "release"
    /\ lock' = NoThread
    /\ Goto(t, "idle")
    /\ UNCHANGED <<completion_wait, expecting_interrupt, op, sector, buffer,
                   deviceVars, spurious>>
-----------------------------------------------------------------------------
(* The controller: it raises an interrupt when a sector is ready to be read *)
(* and when it has stored one, but not when it is ready to take one.        *)
DeviceStep ==
    /\ \/ /\ state = "reading"
          /\ state' = "readData" /\ data' = platter[lba] /\ irq' = TRUE
          /\ UNCHANGED platter
       \/ /\ state = "writing"
          /\ state' = "writeData"
          /\ UNCHANGED <<data, irq, platter>>
       \/ /\ state = "committing"
          /\ state' = "idle" /\ platter' = [platter EXCEPT ![lba] = data] /\ irq' = TRUE
          /\ UNCHANGED data
    /\ UNCHANGED <<channelVars, threadVars, lba, spurious>>

(* interrupt_handler (): reading the status register acknowledges.          *)
interrupt_handler ==
    /\ irq' = FALSE
    /\ completion_wait' = IF expecting_interrupt THEN completion_wait + 1
                                                 ELSE completion_wait

Interrupt ==
    /\ irq
    /\ interrupt_handler
    /\ UNCHANGED <<lock, expecting_interrupt, threadVars, state, lba, data, platter,
                   spurious>>

(* A spurious interrupt of the line, or one the interrupt controller had    *)
(* already latched when the status register was read.                       *)
SpuriousInterrupt ==
    /\ spurious < MaxSpurious
    /\ spurious' = spurious + 1
    /\ interrupt_handler
    /\ UNCHANGED <<lock, expecting_interrupt, threadVars, state, lba, data, platter>>
-----------------------------------------------------------------------------
Progress(t) ==
    \/ select_sector(t) \/ issue_pio_command(t) \/ AwaitCompletion(t)
    \/ wait_while_busy(t) \/ input_sector(t) \/ output_sector(t) \/ lock_release(t)

Next ==
    \/ \E t \in Threads :
         \/ \E s \in Sectors : disk_read(t, s) \/ \E v \in Values : disk_write(t, s, v)
         \/ lock_acquire(t)
         \/ Progress(t)
    \/ DeviceStep
    \/ Interrupt
    \/ SpuriousInterrupt

Spec == Init /\ [][Next]_vars

(* A thread with the lock is scheduled again, the controller answers, and   *)
(* an interrupt that is pending is taken.                                   *)
Fairness ==
    /\ \A t \in Threads : WF_vars(Progress(t))
    /\ WF_vars(DeviceStep)
    /\ WF_vars(Interrupt)

FairSpec == Spec /\ Fairness
-----------------------------------------------------------------------------
(* What the disks hold, a sector the controller has taken but not stored    *)
(* included.                                                                *)
Contents == [s \in Sectors |-> IF state = "committing" /\ lba = s THEN data
                                                                 ELSE platter[s]]

Done(t) == pc[t] = "release" \/ (op[t] = "write" /\ pc[t] = "down")

CallOf(t) == IF pc[t] = "idle" THEN NoCall
             ELSE [op |-> op[t], sector |-> sector[t], done |-> Done(t),
                   data |-> IF op[t] = "read" /\ ~Done(t) THEN NoData ELSE buffer[t]]

SS == INSTANCE SectorStore
        WITH store <- Contents, call <- [t \in Threads |-> CallOf(t)]

(* The comment of disk_read and disk_write: they synchronize access to the  *)
(* disks themselves.  Every call takes effect at one moment, on the sector  *)
(* it names, whatever the other threads do and even when an interrupt that  *)
(* no command caused has left completion_wait too high.                     *)
DiskRefinement == SS!Spec

(* The PANIC in disk_read and disk_write is not reached: a thread never     *)
(* finds the controller without DRQ, although it may look while the         *)
(* controller serves the command before.                                    *)
NoPanic == \A t \in Threads : pc[t] # "panic"

(* The completion interrupt of a command is never missed: the thread that   *)
(* holds the channel's lock finishes and releases it.                       *)
CommandCompletes ==
    \A t \in Threads : lock = t ~> lock # t
=============================================================================
