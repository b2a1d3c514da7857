--------------------------- MODULE RemoteCommands ---------------------------
(***************************************************************************)
(* Remote commands: an operator's request to a player, from the row in     *)
(* device_commands to its answer.                                          *)
(*                                                                         *)
(* The API (apps/api/src/telemetry/telemetry.service.ts) stores a command, *)
(* gives the player the pending ones and takes its answers; a wake-on-LAN  *)
(* command it carries out itself.  The player (apps/web-player/src/        *)
(* remoteCommands.ts) polls every five seconds, carries the commands out   *)
(* one after the other and answers each; in the Electron shell (apps/      *)
(* electron-player/src/main) it hands them to the main process.  Several   *)
(* of them end the page that should answer.                                *)
(*                                                                         *)
(* Answers get lost or are processed after their page is gone, the page    *)
(* stops at any time, and an effect of App.tsx replaces the polling loop   *)
(* while the loop before is in the middle of its batch.                    *)
(***************************************************************************)
EXTENDS Naturals, Sequences, FiniteSets, SequencesExt

CONSTANTS
    Commands,       \* ids of rows of device_commands, all of one device
    Channels,       \* the channels that operators use
    Loops,          \* instances of startRemoteCommandsLoop in one page
    None,
    BATCH,          \* commands that one poll returns: 25
    MaxAnswers,     \* bound: answers under way, those of pages that are gone included
    MaxFaults       \* bound: lost requests, crashes of the page and of the API

KnownChannels == {"restart_player", "clear_cache", "open_url", "reboot_os",
                  "take_screenshot", "wol"}

ASSUME CommandsAssumption ==
    /\ Channels \subseteq KnownChannels
    /\ None \notin Commands \union Loops
    /\ BATCH \in Nat \ {0} /\ MaxAnswers \in Nat \ {0} /\ MaxFaults \in Nat
    /\ Loops # {}

VARIABLES
    bridge,     \* the player runs in the Electron shell; otherwise in a browser
    order,      \* the commands by createdAt
    channel,    \* the channel of each command
    status,     \* "none" before the row exists, then the column of that name
    waking,     \* wake-on-LAN commands whose enqueueCommand has not ended
    page,       \* "up", "down", or "away": the window shows another URL
    leaving,    \* a reload or a reboot of the system is on its way
    token,      \* the page holds a device token
    active,     \* the loop that App.tsx started last; the others are stopped
    loop,       \* what each loop is doing
    answers,    \* requests to .../ack that the API has not ended
    ran,        \* history: how often the player carried a command out
    excused,    \* history: commands whose answer was endangered
    crossed,    \* history: commands that two writers found pending at once
    faults

vars == <<bridge, order, channel, status, waking, page, leaving, token, active,
          loop, answers, ran, excused, crossed, faults>>

apiVars == <<order, channel, status, waking>>
pageVars == <<page, leaving, token, active, loop>>

-----------------------------------------------------------------------------
\* polls: fetchPendingCommands is under way; runs: the head of the batch is next;
\* acks: the answer for the head of the batch is under way.
Loop == [phase : {"idle", "polls", "runs", "acks"}, batch : Seq(Commands)]
Idle == [phase |-> "idle", batch |-> <<>>]

\* by: the loop that waits for the response, None when its page is gone;
\* found: ackCommand has read the status pending.
Answer == [command : Commands, ok : BOOLEAN, by : Loops \union {None}, found : BOOLEAN]

Pending == {c \in Commands : status[c] = "pending"}
Older(c) == {order[j] : j \in {k \in DOMAIN order :
                                 \E i \in DOMAIN order : order[i] = c /\ k <= i}}

\* The nth smallest of a set of numbers.
Rank(S, k) == Cardinality({i \in S : i <= k})
Nth(S, n) == CHOOSE k \in S : Rank(S, k) = n

Fault == faults < MaxFaults /\ faults' = faults + 1

\* A loop goes on with the command after the head of its batch.
Advanced(l) ==
    IF Len(loop[l].batch) = 1 THEN Idle
    ELSE [phase |-> "runs", batch |-> Tail(loop[l].batch)]

\* Commands carried out whose answer is not known to have arrived.
Unanswered == {Head(loop[l].batch) : l \in {k \in Loops : loop[k].phase = "acks"}}

-----------------------------------------------------------------------------
(* The API: TelemetryService.                                              *)

\* Ids are fresh: which unused one it is does not matter.
enqueueCommand(c, ch) ==
    /\ status[c] = "none"
    /\ c = CHOOSE d \in Commands : status[d] = "none"
    /\ order' = Append(order, c)
    /\ channel' = [channel EXCEPT ![c] = ch]
    /\ status' = [status EXCEPT ![c] = "pending"]
    /\ waking' = IF ch = "wol" THEN waking \union {c} ELSE waking
    /\ UNCHANGED <<bridge, pageVars, answers, ran, excused, crossed, faults>>

\* The end of enqueueCommand for wake-on-LAN: no address, or the packet could not
\* be sent, or it was.  The status is not looked at again.
WakeOnLan(c) ==
    /\ c \in waking
    /\ waking' = waking \ {c}
    /\ \E result \in {"acked", "failed"} : status' = [status EXCEPT ![c] = result]
    /\ UNCHANGED <<bridge, order, channel, pageVars, answers, ran, excused, crossed, faults>>

\* The API stops in between: the row stays pending, for the player to find.
WakeOnLanLost(c) ==
    /\ c \in waking /\ Fault
    /\ waking' = waking \ {c}
    /\ UNCHANGED <<bridge, order, channel, status, pageVars, answers, ran, excused, crossed>>

\* The oldest of the pending ones, as many as a poll returns.
pollPendingCommands ==
    LET waiting == {k \in DOMAIN order : status[order[k]] = "pending"}
        size == Cardinality(waiting)
    IN  [n \in 1 .. (IF size < BATCH THEN size ELSE BATCH) |-> order[Nth(waiting, n)]]

\* The response, however it says, lets a loop that still waits for it go on.
Answered(a) ==
    /\ answers' = answers \ {a}
    /\ loop' = IF a.by # None THEN [loop EXCEPT ![a.by] = Advanced(a.by)] ELSE loop

\* A writer that has yet to end found c pending before the answer a did.
Crosses(a) ==
    \/ a.command \in waking
    \/ \E b \in answers \ {a} : b.command = a.command /\ b.found

FoundPending(a) ==
    /\ answers' = (answers \ {a}) \union {[a EXCEPT !.found = TRUE]}
    /\ crossed' = IF Crosses(a) THEN crossed \union {a.command} ELSE crossed
    /\ UNCHANGED loop

\* Mutant: the status of the row is not looked at.
FindAnyRow(a) ==
    /\ a \in answers /\ ~a.found
    /\ FoundPending(a)
    /\ UNCHANGED <<bridge, apiVars, page, leaving, token, active, ran, excused, faults>>

\* ackCommand reads the row; a command that has its result keeps it.
FindAcked(a) ==
    /\ a \in answers /\ ~a.found
    /\ IF status[a.command] = "pending" THEN FoundPending(a)
                                        ELSE Answered(a) /\ UNCHANGED crossed
    /\ UNCHANGED <<bridge, apiVars, page, leaving, token, active, ran, excused, faults>>

\* Mutant: only a success is stored.
AckSuccess(a) ==
    /\ a \in answers /\ a.found
    /\ status' = IF a.ok THEN [status EXCEPT ![a.command] = "acked"] ELSE status
    /\ Answered(a)
    /\ UNCHANGED <<bridge, order, channel, waking, page, leaving, token, active,
                   ran, excused, crossed, faults>>

\* ackCommand writes the row, whatever its status is by now.
ackCommand(a) ==
    /\ a \in answers /\ a.found
    /\ status' = [status EXCEPT ![a.command] = IF a.ok THEN "acked" ELSE "failed"]
    /\ Answered(a)
    /\ UNCHANGED <<bridge, order, channel, waking, page, leaving, token, active,
                   ran, excused, crossed, faults>>

-----------------------------------------------------------------------------
(* The player's loop.                                                      *)

\* Mutant: a tick does not look at the flag running.
TickWhileRunning(l) ==
    /\ page = "up" /\ token /\ l = active
    /\ loop' = [loop EXCEPT ![l].phase = "polls"]
    /\ UNCHANGED <<bridge, apiVars, page, leaving, token, active, answers, ran,
                   excused, crossed, faults>>

\* A tick of the interval, which a stopped or running loop ignores.
Tick(l) ==
    /\ page = "up" /\ token
    /\ l = active /\ loop[l].phase = "idle"
    /\ loop' = [loop EXCEPT ![l].phase = "polls"]
    /\ UNCHANGED <<bridge, apiVars, page, leaving, token, active, answers, ran,
                   excused, crossed, faults>>

\* A command that another loop has in its batch will be carried out by both.
fetchPendingCommands(l) ==
    /\ loop[l].phase = "polls"
    /\ LET batch == pollPendingCommands IN
       /\ loop' = [loop EXCEPT ![l] = IF batch = <<>> THEN Idle
                                      ELSE [phase |-> "runs", batch |-> batch]]
       /\ excused' = excused \union {c \in ToSet(batch) :
                                       \E k \in Loops \ {l} : c \in ToSet(loop[k].batch)}
    /\ UNCHANGED <<bridge, apiVars, page, leaving, token, active, answers, ran, crossed, faults>>

\* A failure counts as an empty list.
FetchFails(l) ==
    /\ loop[l].phase = "polls" /\ Fault
    /\ loop' = [loop EXCEPT ![l] = Idle]
    /\ UNCHANGED <<bridge, apiVars, page, leaving, token, active, answers, ran, excused, crossed>>

\* What carrying out a command may come to: the answer, and what becomes of the page
\* and of its token.  "acked" says no more than that no call raised an error.
Outcome(answer, after) == [answer |-> answer, after |-> after]

Refused == Outcome("failed", "stays")

\* The errors of the browser's caches and a window that is not opened are not looked
\* at, nor how a spawned reboot or the upload of a screenshot ends.  A page of the
\* shell that the new address replaces is gone before it answers, and the watchdog
\* loads the player again when the address could not be loaded.
executeRemoteCommand(ch) ==
    CASE ch = "restart_player" ->
            {IF bridge THEN Outcome("none", "exits") ELSE Outcome("acked", "leaves")}
      [] ch = "clear_cache" ->
            IF bridge THEN {Outcome("acked", "forgets"), Refused}
                      ELSE {Outcome("acked", "leaves")}
      [] ch = "open_url" ->
            {Refused} \union (IF bridge THEN {Outcome("none", "departs"), Outcome("none", "exits")}
                                        ELSE {Outcome("acked", "stays")})
      [] ch = "reboot_os" ->
            {Refused} \union (IF bridge THEN {Outcome("acked", "leaves"), Outcome("acked", "stays")}
                                        ELSE {})
      [] ch = "take_screenshot" -> {Refused, Outcome("acked", "stays")}
      [] OTHER -> {Refused}

\* Mutant: the answers under way still have somebody who waits for them.
GoneButWaiting(where, unanswered) ==
    /\ page' = where
    /\ leaving' = FALSE
    /\ loop' = [l \in Loops |-> Idle]
    /\ excused' = excused \union unanswered
    /\ UNCHANGED answers

\* The page goes: its loops with it, and nobody waits for the answers under way; those
\* that the API has not begun with may be aborted.
Gone(where, unanswered) ==
    /\ page' = where
    /\ leaving' = FALSE
    /\ loop' = [l \in Loops |-> Idle]
    /\ \E sent \in SUBSET answers :
          /\ \A a \in answers : a.found => a \in sent
          /\ answers' = {[a EXCEPT !.by = None] : a \in sent}
    /\ excused' = excused \union unanswered

Execute(l) ==
    /\ loop[l].phase = "runs" /\ Cardinality(answers) < MaxAnswers
    /\ LET c == Head(loop[l].batch) IN
       \E o \in executeRemoteCommand(channel[c]) :
       /\ ran' = [ran EXCEPT ![c] = IF @ = 0 THEN 1 ELSE 2]
       /\ token' = IF o.after = "forgets" THEN FALSE ELSE token
       /\ IF o.answer = "none"
          THEN Gone(IF o.after = "departs" THEN "away" ELSE "down", Unanswered \union {c})
          ELSE /\ leaving' = (leaving \/ o.after \in {"leaves", "forgets"})
               /\ loop' = [loop EXCEPT ![l].phase = "acks"]
               /\ answers' = answers \union
                     {[command |-> c, ok |-> o.answer = "acked", by |-> l, found |-> FALSE]}
               /\ UNCHANGED <<page, excused>>
    /\ UNCHANGED <<bridge, apiVars, active, crossed, faults>>

\* The request fails before or after the API got it; the player goes on.
AckFails(a) ==
    /\ a \in answers /\ a.by # None /\ Fault
    /\ answers' \in {answers \ {a}, (answers \ {a}) \union {[a EXCEPT !.by = None]}}
    /\ loop' = [loop EXCEPT ![a.by] = Advanced(a.by)]
    /\ excused' = excused \union {a.command}
    /\ UNCHANGED <<bridge, apiVars, page, leaving, token, active, ran, crossed>>

-----------------------------------------------------------------------------
(* The page.                                                               *)

\* The dependencies of the effect of App.tsx change: the loop before is stopped,
\* its batch is not, and the new one ticks at once.
RestartEffect(l) ==
    /\ page = "up" /\ l # active /\ loop[l].phase = "idle"
    /\ active' = l
    /\ loop' = IF token THEN [loop EXCEPT ![l].phase = "polls"] ELSE loop
    /\ UNCHANGED <<bridge, apiVars, page, leaving, token, answers, ran, excused, crossed, faults>>

\* A reload that was asked for, the reboot, or a crash.
PageGoes ==
    /\ page = "up"
    /\ IF leaving THEN UNCHANGED faults ELSE Fault
    /\ Gone("down", Unanswered)
    /\ UNCHANGED <<bridge, apiVars, token, active, ran, crossed>>

\* The shell starts again, or its watchdog makes a new window; from another URL
\* only an operator brings it back.
PageStarts ==
    /\ page # "up"
    /\ page' = "up"
    /\ UNCHANGED <<bridge, apiVars, leaving, token, active, loop, answers, ran,
                   excused, crossed, faults>>

performPair ==
    /\ page = "up" /\ ~token
    /\ token' = TRUE
    /\ UNCHANGED <<bridge, apiVars, page, leaving, active, loop, answers, ran,
                   excused, crossed, faults>>

-----------------------------------------------------------------------------
Init ==
    /\ bridge \in BOOLEAN
    /\ order = <<>>
    /\ channel = [c \in Commands |-> "none"]
    /\ status = [c \in Commands |-> "none"]
    /\ waking = {}
    /\ page = "up" /\ leaving = FALSE /\ token = TRUE
    /\ active = CHOOSE l \in Loops : TRUE
    /\ loop = [l \in Loops |-> Idle]
    /\ answers = {}
    /\ ran = [c \in Commands |-> 0]
    /\ excused = {} /\ crossed = {}
    /\ faults = 0

Operator == \E c \in Commands, ch \in Channels : enqueueCommand(c, ch)

Api == \/ \E c \in Commands : WakeOnLan(c) \/ WakeOnLanLost(c)
       \/ \E a \in answers : FindAcked(a) \/ ackCommand(a)

Player == \/ \E l \in Loops : \/ Tick(l) \/ fetchPendingCommands(l) \/ FetchFails(l)
                              \/ Execute(l) \/ RestartEffect(l)
          \/ \E a \in answers : AckFails(a)
          \/ PageGoes \/ PageStarts \/ performPair

Next == Operator \/ Api \/ Player

\* Timers tick, requests are answered, and a page that went down is started again.
Fairness ==
    /\ WF_vars(\E c \in Commands : WakeOnLan(c))
    /\ WF_vars(\E a \in answers : FindAcked(a) \/ ackCommand(a))
    /\ WF_vars(\E l \in Loops : Tick(l))
    /\ \A l \in Loops : WF_vars(fetchPendingCommands(l)) /\ WF_vars(Execute(l))
    /\ WF_vars(page = "down" /\ PageStarts)

Spec == Init /\ [][Next]_vars /\ Fairness

-----------------------------------------------------------------------------
(* Properties.                                                             *)

\* Every command, loop and answer is well typed; a loop at work has a batch, and an
\* answer that a loop waits for is that for the head of its batch (remoteCommands.ts).
TypeOK ==
    /\ bridge \in BOOLEAN
    /\ order \in Seq(Commands)
    /\ channel \in [Commands -> Channels \union {"none"}]
    /\ status \in [Commands -> {"none", "pending", "acked", "failed"}]
    /\ waking \subseteq Commands
    /\ page \in {"up", "down", "away"} /\ leaving \in BOOLEAN /\ token \in BOOLEAN
    /\ active \in Loops
    /\ loop \in [Loops -> Loop]
    /\ \A l \in Loops : loop[l].phase \in {"runs", "acks"} <=> loop[l].batch # <<>>
    /\ answers \subseteq Answer
    /\ \A a \in answers : a.by # None => /\ loop[a.by].phase = "acks"
                                          /\ Head(loop[a.by].batch) = a.command
    /\ ran \in [Commands -> 0 .. 2]
    /\ excused \subseteq Commands /\ crossed \subseteq Commands
    /\ faults \in 0 .. MaxFaults

\* The result that operators see does not change any more, however often a command
\* was carried out and answered, unless a second writer had found the row pending
\* before the first one wrote it: ackCommand looks and writes in two calls, and a
\* wake-on-LAN writes without looking (telemetry.service.ts).
ResultsStand ==
    [][\A c \in Commands :
          status[c] \in {"acked", "failed"} /\ status'[c] # status[c] => c \in crossed]_vars

\* A command is carried out a second time only if its first answer was endangered:
\* lost, or its page went before it arrived, or two loops held the command.  A page
\* that stays, whose answers arrive, runs each command once.
RepeatsHaveACause ==
    \A c \in Commands : ran[c] = 2 => c \in excused

\* The player begins with commands in the order of their creation: none runs while
\* an older one was never tried.  Wake-on-LAN may end without the player.
FirstRunsInOrder ==
    \A i, j \in DOMAIN order :
        i < j /\ ran[order[j]] > 0 /\ channel[order[i]] # "wol" => ran[order[i]] > 0

\* Both: commands begin in their order, and run again only for a cause (remoteCommands.ts).
CommandsRunInTurn == RepeatsHaveACause /\ FirstRunsInOrder

\* Commands that may end the page before it answers.
EndsPage(c) ==
    \/ channel[c] \in {"restart_player", "clear_cache"}
    \/ bridge /\ channel[c] \in {"open_url", "reboot_os"}

\* Every command is answered in the end, unless the player is away or without a
\* token, or the command or an older one may end the page: as long as such a
\* command stays pending it is carried out again first after every start.
CommandsAreAnswered ==
    \A c \in Commands :
        status[c] = "pending" ~>
            \/ status[c] \in {"acked", "failed"}
            \/ page = "away" \/ ~token
            \/ \E d \in Older(c) \intersect Pending : EndsPage(d)
=============================================================================
