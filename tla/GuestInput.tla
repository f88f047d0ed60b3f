------------------------------ MODULE GuestInput ------------------------------
(***************************************************************************)
(* What wakes the application thread of a NativeActivity                   *)
(* (GuestRuntime/agr_guest_runtime.c): touches the user interface puts     *)
(* into a ring under a lock, and commands the main guest thread writes to  *)
(* a pipe that is not locked.  The guest's own code (native_app_glue) is   *)
(* external: one thread polls, one thread writes commands.                 *)
(*                                                                         *)
(* A locked section is one action.  A read and a write of the pipe are the *)
(* few steps their shared fields are accessed in, and may overlap; `met'   *)
(* remembers that they have.  From then on the accesses race, finer than   *)
(* these steps, and no order of the commands is claimed.                   *)
(***************************************************************************)
EXTENDS Naturals, Sequences

CONSTANTS
    RingSize, PipeSize,
    Handles,      \* handles of touches, then they start again: 2^30, in steps of 4
    MaxCommands   \* bound: commands written

ASSUME InputAssumption ==
    /\ {RingSize, PipeSize} \subseteq Nat \ {0}
    /\ Handles \in Nat /\ RingSize < Handles
    /\ MaxCommands \in Nat

VARIABLES
    ring,      \* slots, head, count of the event ring
    attached,  \* input_ident is set
    pipe,      \* data, offset, size
    app,       \* the application thread
    main,      \* the main guest thread
    nextHandle, \* next_input_handle, counted in events
    due,       \* the handle the handler is to see next
    sent,      \* commands accepted by the pipe
    received,  \* bytes the application thread has read
    met        \* a read and a write of the pipe have overlapped

inputVars == <<ring, attached, pipe, app, main, nextHandle, due, sent, received, met>>
pipeVars == <<pipe, main, sent, received, met>>
ringVars == <<ring, nextHandle, due>>

InputInit ==
    /\ ring = [slots |-> [i \in 0 .. RingSize - 1 |-> 0], head |-> 0, count |-> 0]
    /\ attached = FALSE
    /\ pipe = [data |-> [i \in 0 .. PipeSize - 1 |-> 0], offset |-> 0, size |-> 0]
    /\ app = [pc |-> "poll", event |-> 0, byte |-> 0]
    /\ main = [pc |-> "idle", command |-> "none", commands |-> MaxCommands]
    /\ nextHandle = 0 /\ due = 0
    /\ sent = <<>> /\ received = <<>> /\ met = FALSE

AppAt(l) == app.pc = l
AppGoes(l) == app' = [app EXCEPT !.pc = l]

-----------------------------------------------------------------------------
(* The ring *)

Slot(i) == (ring.head + i) % RingSize

(* The counter of handles is 32 bits wide. *)
Wrapped(n) == IF n < Handles THEN n ELSE n - Handles

\* fault: a full ring takes the touch anyway
RoomAlways == TRUE

Room == ring.count < RingSize

Inject ==
    /\ Room
    /\ ring' = [ring EXCEPT !.slots[Slot(ring.count)] = nextHandle, !.count = @ + 1]
    /\ nextHandle' = Wrapped(nextHandle + 1)
    /\ UNCHANGED <<attached, app, due, pipeVars>>

(* ALooper_pollAll: touches first, then the pipe. *)
PollInput ==
    /\ AppAt("poll")
    /\ AppGoes(IF attached /\ ring.count > 0 THEN "get" ELSE "pollfd")
    /\ UNCHANGED <<attached, ringVars, pipeVars>>

\* fault: a pipe that was read from has nothing more
UnreadFromStart == pipe.offset = 0 /\ pipe.size # 0

Unread == pipe.size # pipe.offset

PollPipe ==
    /\ AppAt("pollfd")
    /\ AppGoes(IF Unread THEN "read" ELSE "poll")
    /\ UNCHANGED <<attached, ringVars, pipeVars>>

(* AInputQueue_getEvent leaves the event where it is. *)
GetEvent ==
    /\ AppAt("get")
    /\ app' = IF ring.count = 0 THEN [app EXCEPT !.pc = "poll"]
              ELSE [app EXCEPT !.pc = "handle", !.event = ring.slots[ring.head]]
    /\ UNCHANGED <<attached, ringVars, pipeVars>>

(* The handler asks for the event by its handle. *)
HandleEvent ==
    /\ AppAt("handle")
    /\ \E i \in 0 .. ring.count - 1 : ring.slots[Slot(i)] = app.event
    /\ due' = Wrapped(app.event + 1)
    /\ AppGoes("finish")
    /\ UNCHANGED <<attached, ring, nextHandle, pipeVars>>

\* fault: whatever is at the head is finished
MatchesAny == ring.count > 0

Matches == ring.count > 0 /\ ring.slots[ring.head] = app.event

(* AInputQueue_finishEvent, perhaps once more for the same event. *)
FinishEvent ==
    /\ AppAt("finish")
    /\ ring' = IF Matches THEN [ring EXCEPT !.head = Slot(1), !.count = @ - 1] ELSE ring
    /\ \E l \in {"get"} \cup IF Matches THEN {"finish"} ELSE {} : AppGoes(l)
    /\ UNCHANGED <<attached, nextHandle, due, pipeVars>>

-----------------------------------------------------------------------------
(* The pipe *)

Reading == app.pc \in {"copied", "reset"}
Writing == main.pc = "append"

(* fd_read_cb of one byte: copy, compare, reset. *)
CopyByte ==
    /\ AppAt("read")
    /\ app' = [app EXCEPT !.pc = "copied", !.byte = pipe.data[pipe.offset % PipeSize]]
    /\ pipe' = [pipe EXCEPT !.offset = @ + 1]
    /\ met' = (met \/ Writing)
    /\ UNCHANGED <<attached, main, sent, received, ringVars>>

CompareOffset ==
    /\ AppAt("copied")
    /\ AppGoes(IF pipe.offset = pipe.size THEN "reset" ELSE "execute")
    /\ UNCHANGED <<attached, ringVars, pipeVars>>

ResetPipe ==
    /\ AppAt("reset")
    /\ pipe' = [pipe EXCEPT !.offset = 0, !.size = 0]
    /\ AppGoes("execute")
    /\ UNCHANGED <<attached, main, sent, received, met, ringVars>>

\* fault: compaction forgets to lower the size
CompactedLong(p) ==
    [p EXCEPT !.data = [i \in DOMAIN p.data |-> p.data[(i + p.offset) % PipeSize]], !.offset = 0]

(* memmove of what is unread to the front. *)
Compacted(p) ==
    [p EXCEPT !.data = [i \in DOMAIN p.data |->
                           IF i < p.size - p.offset THEN p.data[i + p.offset] ELSE p.data[i]],
              !.size = @ - p.offset, !.offset = 0]

(* fd_write_cb of one byte: the main thread begins a command. *)
BeginWrite(command) ==
    /\ main.pc = "idle" /\ main.commands > 0
    /\ pipe.offset <= pipe.size
    /\ pipe' = Compacted(pipe)
    /\ main' = [pc |-> "append", command |-> command, commands |-> main.commands - 1]
    /\ met' = (met \/ Reading)
    /\ UNCHANGED <<attached, app, sent, received, ringVars>>

Waits(command) == command # "plain"

(* A full pipe refuses the byte, which the glue only logs. *)
AppendByte ==
    /\ main.pc = "append"
    /\ IF pipe.size < PipeSize
       THEN /\ pipe' = [pipe EXCEPT !.data[pipe.size] = Len(sent) + 1, !.size = @ + 1]
            /\ sent' = Append(sent, main.command)
       ELSE UNCHANGED <<pipe, sent>>
    /\ main' = [main EXCEPT !.pc = IF Waits(main.command) THEN "waiting" ELSE "idle"]
    /\ UNCHANGED <<attached, app, received, met, ringVars>>

(* The command is carried out; attaching and detaching the queue are those *)
(* the main thread waits for.                                              *)
Execute ==
    /\ AppAt("execute")
    /\ received' = Append(received, app.byte)
    /\ LET command == IF app.byte \in DOMAIN sent THEN sent[app.byte] ELSE "plain"
       IN  /\ attached' = CASE command = "attach" -> TRUE
                            [] command = "detach" -> FALSE
                            [] OTHER -> attached
           /\ main' = IF Waits(command) /\ main.pc = "waiting"
                      THEN [main EXCEPT !.pc = "idle"] ELSE main
    /\ AppGoes("poll")
    /\ UNCHANGED <<pipe, sent, met, ringVars>>

-----------------------------------------------------------------------------
AppStep ==
    \/ PollInput \/ PollPipe \/ GetEvent \/ HandleEvent \/ FinishEvent
    \/ CopyByte \/ CompareOffset \/ ResetPipe \/ Execute

InputNext ==
    \/ AppStep
    \/ Inject
    \/ \E command \in {"attach", "detach", "plain"} : BeginWrite(command)
    \/ AppendByte

InputSpec == InputInit /\ [][InputNext]_inputVars

(* Both guest threads run on host threads of their own, and the handlers   *)
(* return: the steps of a read and of a write are taken.                   *)
InputFairness == WF_inputVars(AppStep) /\ WF_inputVars(AppendByte)

FairInputSpec == InputSpec /\ InputFairness

-----------------------------------------------------------------------------
(* Touches reach the handler in the order of their injection, each once:   *)
(* the ring holds the touches injected last, under consecutive handles     *)
(* that are their own even when the counter starts again, and the handler  *)
(* is given the one after the one it was given before.  A full ring and a  *)
(* second finishEvent change nothing.                                      *)
TouchesInOrder ==
    LET oldest == IF ring.count <= nextHandle THEN nextHandle - ring.count
                  ELSE nextHandle + Handles - ring.count
    IN  /\ ring.count <= RingSize
        /\ \A i \in 0 .. ring.count - 1 : ring.slots[Slot(i)] = Wrapped(oldest + i)
        /\ due \in {oldest, Wrapped(oldest + 1)}
        /\ AppAt("handle") => app.event = due

(* fd_read_cb and fd_write_cb keep every command: commands arrive in the   *)
(* order they were written, none twice, and when both threads have left    *)
(* the pipe what has not arrived is still in it.  native_app_glue waits    *)
(* for the effect of some of them.                                         *)
CommandsNotLost ==
    /\ received = [i \in 1 .. Len(received) |-> i]
    /\ app.pc \in {"poll", "pollfd", "get", "handle", "finish"} /\ main.pc # "append" =>
           pipe.size - pipe.offset = Len(sent) - Len(received)

(* Only the overlap of a read and a write loses, repeats or reorders a     *)
(* command: nothing else the two threads do in between, compaction behind  *)
(* a byte in hand, a full pipe and a reset included, can.                  *)
CommandsDelivered == ~met => CommandsNotLost

TouchesStop == \E n \in 0 .. Handles - 1 : <>[](nextHandle = n)

(* A command that was written is carried out, although detaching the queue *)
(* is itself a command, unless a read and a write have overlapped and as   *)
(* long as the touches stop some time: ALooper_pollAll serves them first,  *)
(* and a stream that never ends keeps the application thread from its pipe.*)
CommandsHandled ==
    TouchesStop =>
        \A k \in 1 .. MaxCommands : Len(sent) >= k ~> Len(received) >= k \/ met
===============================================================================
