----------------------------- MODULE SSDController -----------------------------
(***************************************************************************)
(* The SSD controller of mini-storage-hardware (src/ssd_controller.c): an  *)
(* issue queue and a completion queue in front of the translation layer of *)
(* module FTL, and the per-channel busy marks of ssdc_interleaved_submit.  *)
(*                                                                         *)
(* The rings of the code (head, tail, count) are sequences of at most      *)
(* SSDC_QUEUE_DEPTH commands.  Simulated time is left out: a call of       *)
(* ssdc_process with at least one cycle does all the work of the call in   *)
(* its first cycle, and with none does nothing.                            *)
(*                                                                         *)
(* history is not in the code: it records every command accepted, numbered *)
(* by tag, and what became of it.                                          *)
(***************************************************************************)
EXTENDS FTL, Sequences

CONSTANTS
    SSDC_CHANNELS,      \* 4
    SSDC_QUEUE_DEPTH,   \* 64
    MaxCommands         \* bound: commands a behaviour submits

ASSUME ControllerAssumption ==
    /\ SSDC_CHANNELS \in Nat \ {0}
    /\ SSDC_QUEUE_DEPTH \in Nat \ {0}
    /\ MaxCommands \in Nat

Channels == 0 .. SSDC_CHANNELS - 1
IOType   == {"READ", "WRITE", "ERASE"}
IOStatus == {"PENDING", "COMPLETE", "ERROR"}   \* IO_ISSUED lasts no longer than a call

VARIABLES
    issue_queue,        \* commands waiting for ssdc_process
    completion_queue,   \* commands done, waiting for ssdc_complete
    busy_channels,      \* commands ssdc_process has in hand
    channel_busy,       \* channels[ch].busy_cycles > 0
    history             \* every accepted command, in order

queues == <<issue_queue, completion_queue, busy_channels, channel_busy, history>>
vars   == <<ftl, queues>>
--------------------------------------------------------------------------------
SSDInit ==
    /\ Init
    /\ issue_queue = <<>>
    /\ completion_queue = <<>>
    /\ busy_channels = 0
    /\ channel_busy = [ch \in Channels |-> FALSE]
    /\ history = <<>>

\* cmd_id is the length of the issue queue: it names a command only among those
\* waiting in it.
IOCommand(type, l, d) ==
    [type   |-> type,
     lba    |-> l,
     data   |-> IF type = "WRITE" THEN d ELSE Zero,
     status |-> "PENDING",
     cmd_id |-> Len(issue_queue),
     tag    |-> Len(history) + 1]

cq_enqueue(q, cmd) == IF Len(q) >= SSDC_QUEUE_DEPTH THEN q ELSE Append(q, cmd)

Enqueue(cmd) ==
    /\ issue_queue' = cq_enqueue(issue_queue, cmd)
    /\ history' = IF issue_queue' = issue_queue THEN history ELSE Append(history, cmd)

ssdc_submit_io(type, l, d) ==
    /\ Len(history) < MaxCommands
    /\ Enqueue(IOCommand(type, l, d))
    /\ UNCHANGED <<ftl, completion_queue, busy_channels, channel_busy>>

\* The first channel from lba % SSDC_CHANNELS on that is not busy.
FreeChannels(l) ==
    {ch \in 0 .. SSDC_CHANNELS - 1 : ~channel_busy[(l + ch) % SSDC_CHANNELS]}

TargetChannel(l) ==
    (l + CHOOSE ch \in FreeChannels(l) : \A c \in FreeChannels(l) : ch <= c) % SSDC_CHANNELS

\* The channel stays busy for good: nothing ever lowers busy_cycles, and it is
\* taken even when the issue queue refuses the command.
ssdc_interleaved_submit(type, l, d) ==
    /\ Len(history) < MaxCommands
    /\ FreeChannels(l) # {}
    /\ channel_busy' = [channel_busy EXCEPT ![TargetChannel(l)] = TRUE]
    /\ Enqueue(IOCommand(type, l, d))
    /\ UNCHANGED <<ftl, completion_queue, busy_channels>>

\* One command against the translation layer: its final form and the layer after.
Execute(f, cmd) ==
    LET r == ftl_read(f, cmd.lba)
        w == ftl_write(f, cmd.lba, cmd.data)
        Status(rc) == IF rc = 0 THEN "COMPLETE" ELSE "ERROR"
    IN  CASE cmd.type = "READ"  -> [ftl |-> f, cmd |-> [cmd EXCEPT !.data = r.data,
                                                                  !.status = Status(r.rc)]]
          [] cmd.type = "WRITE" -> [ftl |-> w.ftl, cmd |-> [cmd EXCEPT !.status = Status(w.rc)]]
          [] cmd.type = "ERASE" -> [ftl |-> f, cmd |-> [cmd EXCEPT !.status = "COMPLETE"]]

Serving(s) == s.issue # <<>> /\ s.busy < SSDC_CHANNELS

\* Mutants of ServeNext: the channel is never given back; the issue queue is
\* served from its tail.
ServeNextKeepsChannel(s) ==
    LET e == Execute(s.ftl, Head(s.issue))
    IN  IF ~Serving(s) THEN s
        ELSE [issue |-> Tail(s.issue), completion |-> cq_enqueue(s.completion, e.cmd),
              busy |-> s.busy + 1, ftl |-> e.ftl,
              history |-> [s.history EXCEPT ![e.cmd.tag] = e.cmd]]

ServeNextLast(s) ==
    LET e == Execute(s.ftl, s.issue[Len(s.issue)])
    IN  IF ~Serving(s) THEN s
        ELSE [issue |-> SubSeq(s.issue, 1, Len(s.issue) - 1),
              completion |-> cq_enqueue(s.completion, e.cmd),
              busy |-> s.busy, ftl |-> e.ftl,
              history |-> [s.history EXCEPT ![e.cmd.tag] = e.cmd]]

\* One round of the inner loop of ssdc_process.  busy_channels goes up and down
\* again within the round; a full completion queue swallows the command.
ServeNext(s) ==
    LET e == Execute(s.ftl, Head(s.issue))
    IN  IF ~Serving(s) THEN s
        ELSE [issue |-> Tail(s.issue), completion |-> cq_enqueue(s.completion, e.cmd),
              busy |-> (s.busy + 1) - 1, ftl |-> e.ftl,
              history |-> [s.history EXCEPT ![e.cmd.tag] = e.cmd]]

Served ==
    LET serve[n \in 0 .. Len(issue_queue)] ==
            IF n = 0 THEN [issue |-> issue_queue, completion |-> completion_queue,
                           busy |-> busy_channels, ftl |-> ftl, history |-> history]
            ELSE ServeNext(serve[n - 1])
    IN  serve[Len(issue_queue)]

ssdc_process ==
    /\ \E s \in {Served} :
           /\ issue_queue' = s.issue
           /\ completion_queue' = s.completion
           /\ busy_channels' = s.busy
           /\ ftl' = s.ftl
           /\ history' = s.history
    /\ UNCHANGED channel_busy

ssdc_complete ==
    /\ completion_queue # <<>>
    /\ completion_queue' = Tail(completion_queue)
    /\ UNCHANGED <<ftl, issue_queue, busy_channels, channel_busy, history>>

SSDNext ==
    \/ \E type \in IOType, l \in LBA, d \in Data :
           \/ ssdc_submit_io(type, l, d)
           \/ ssdc_interleaved_submit(type, l, d)
    \/ ssdc_process
    \/ ssdc_complete

SSDSpec == SSDInit /\ [][SSDNext]_vars
--------------------------------------------------------------------------------
(* Properties. *)

Commands == [type : IOType, lba : LBA, data : Data, status : IOStatus,
             cmd_id : 0 .. SSDC_QUEUE_DEPTH - 1, tag : 1 .. MaxCommands]

SSDTypeOK ==
    /\ TypeOK
    /\ issue_queue \in Seq(Commands) /\ Len(issue_queue) <= SSDC_QUEUE_DEPTH
    /\ completion_queue \in Seq(Commands) /\ Len(completion_queue) <= SSDC_QUEUE_DEPTH
    /\ busy_channels \in 0 .. SSDC_CHANNELS
    /\ channel_busy \in [Channels -> BOOLEAN]
    /\ history \in Seq(Commands)

\* The tags of successful writes to l that were accepted before command t.
WritesBefore(l, t) ==
    {u \in 1 .. t - 1 : /\ history[u].type = "WRITE" /\ history[u].lba = l
                        /\ history[u].status = "COMPLETE"}

\* Queues, translation layer and refused writes together: a read that completes
\* returns the data of the last successful write to the block accepted before
\* it, however submissions and ssdc_process calls interleave.
ReadsLastWrite ==
    \A t \in 1 .. Len(history) :
        LET c == history[t]
            W == WritesBefore(c.lba, t)
        IN  c.type = "READ" /\ c.status = "COMPLETE" =>
                \/ W = {} /\ c.data = Zero
                \/ \E u \in W : (\A v \in W : v <= u) /\ c.data = history[u].data

\* A read fails only after a write to the same block was refused, and a write
\* only after as many writes as the device has pages.
ErrorsExplained ==
    \A t \in 1 .. Len(history) :
        history[t].status = "ERROR" =>
            \/ /\ history[t].type = "READ"
               /\ \E u \in 1 .. t - 1 : /\ history[u].type = "WRITE"
                                        /\ history[u].lba = history[t].lba
                                        /\ history[u].status = "ERROR"
            \/ /\ history[t].type = "WRITE"
               /\ Cardinality({u \in 1 .. t - 1 : /\ history[u].type = "WRITE"
                                                  /\ history[u].status = "COMPLETE"}) = NumPages

Tags(q) == {q[i].tag : i \in 1 .. Len(q)}

\* No command is left behind or swallowed: a call that takes commands from the
\* issue queue takes them all (busy_channels is back at zero after each, so the
\* channels never run out), and all of them reach the completion queue unless it
\* was too small for the batch.
BatchAnswered ==
    [][Len(issue_queue') < Len(issue_queue) =>
          /\ issue_queue' = <<>>
          /\ \/ Tags(issue_queue) \subseteq Tags(completion_queue')
             \/ Len(issue_queue) + Len(completion_queue) > SSDC_QUEUE_DEPTH]_vars

\* Commands in their queues; reads see the last write accepted before them, and an
\* error has a refused write or a full device behind it.
SSDSound == SSDTypeOK /\ ReadsLastWrite /\ ErrorsExplained
================================================================================
