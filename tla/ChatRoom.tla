------------------------------ MODULE ChatRoom ------------------------------
(* A group room in which profiles answer the user and call each other       *)
(* (services/codex-chat/groupChatService.ts), with everybody else who would *)
(* write to it: the messages by which a member reacts to the end of a       *)
(* generation it asked for (chatGenerationReactions.ts, and react and       *)
(* skipReaction of llmChatService.ts) and the orders on an earlier reply    *)
(* (chatOrderRuns.ts, chatOrderRunner.ts).                                  *)
(*                                                                          *)
(* Whoever holds the room keeps the others out; a user's message takes it   *)
(* from them.  An action is one turn of the event loop with the microtasks  *)
(* it leaves behind: a reply that settles, the next member who starts and   *)
(* the next sender who takes the room are one step, a setImmediate is not.  *)
EXTENDS Naturals, Sequences, FiniteSets

CONSTANTS Members, ConnectionOf,
          Slots,       \* replies a connection carries at once
          ChainLimit,  \* wakes of members by members after one user message
          NumLinks,    \* replies that ask for a generation
          Budgets      \* bounds: of messages, of generations, and of mishaps (orders,
                       \* interrupts and ends of the process)

Links == 1..NumLinks

ASSUME ChainAssumption == ChainLimit \in Nat
ASSUME LinkAssumption == NumLinks \in Nat
ASSUME MembersAssumption == IsFiniteSet(Members)
ASSUME SlotsAssumption == \A m \in Members : Slots[ConnectionOf[m]] \in Nat
ASSUME BudgetsAssumption == Budgets \subseteq [{"sends", "jobs", "mishaps"} -> Nat]

VARIABLES
    run,       \* the GroupRun: where it is, stopped, chainUsed, and the speaker of the
               \* room's last message, if it is a completed reply
    queue,     \* members to answer, in order
    reply,     \* the reply of each member: how far, its generation, explicitlyRouted
    reserved,  \* <<caller, called>>
    waiting,   \* a user's message waits in stop() for the room
    order,     \* an order holds the room
    job,       \* the generations of each reply that asked for any
    source,    \* its message
    reaction,  \* the row of chat_generation_reactions, "no" without one
    attempts,
    work,      \* how far react() is
    turn,      \* the reaction that holds the room, or 0
    cut,       \* reactions whose signal is aborted
    halting,   \* reactions an interrupt waits for, to stop then what runs in the room
    scheduled, \* the setImmediate of a reconcile pass
    service,   \* "on", "stopping" (the reactions are stopped) or "off"
    left       \* what is left of the budget

roomVars == <<run, queue, reply, reserved, waiting>>
reactionVars == <<reaction, attempts, work, turn, cut, halting>>
vars == <<roomVars, order, job, source, reactionVars, scheduled, service, left>>

NoRun == [at |-> "none", stopped |-> FALSE, used |-> 0, last |-> {}]
NewRun == [NoRun EXCEPT !.at = "preparing"]
NoReply == [at |-> "none", link |-> 0, routed |-> FALSE]
NewReply == [NoReply EXCEPT !.at = "answering"]

Init ==
    /\ run = NoRun
    /\ queue = <<>>
    /\ reply = [m \in Members |-> NoReply]
    /\ reserved = {}
    /\ waiting = FALSE
    /\ order = FALSE
    /\ job = [l \in Links |-> "none"]
    /\ source = [l \in Links |-> "none"]
    /\ reaction = [l \in Links |-> "no"]
    /\ attempts = [l \in Links |-> 0]
    /\ work = [l \in Links |-> "no"]
    /\ turn = 0
    /\ cut = {}
    /\ halting = {}
    /\ scheduled = FALSE
    /\ service = "on"
    /\ left \in Budgets

Spend(what) == left[what] > 0 /\ left' = [left EXCEPT ![what] = @ - 1]

Up == service # "off"

\* GroupChatService.isRunning.
IsRunning == run.at # "none" \/ order \/ turn # 0

----------------------------------------------------------------------------
(* Who gets the room, and who starts to answer.                             *)

\* The end of what held the room resumes the messages that wait for it: the
\* first starts a run, the others find it and are refused.
PassOn ==
    /\ run' = IF waiting THEN NewRun ELSE NoRun
    /\ waiting' = FALSE

EndRun ==
    /\ PassOn
    /\ queue' = <<>>
    /\ reserved' = {}
    /\ reply' = [m \in Members |-> NoReply]

Orders(S) == {s \in [1..Cardinality(S) -> S] : \A i, j \in DOMAIN s : s[i] = s[j] => i = j}

Flying(rep) == {m \in Members : rep[m].at # "none"}
First(q, i) == \A k \in 1..(i - 1) : q[k] # q[i]

\* Mutant: who is queued after the stop starts.
IsPassUnstopped(r, q, rep, S) ==
    S = {i \in DOMAIN q :
            /\ First(q, i) /\ q[i] \notin Flying(rep)
            /\ LET ahead == Flying(rep) \cup {q[k] : k \in {n \in S : n < i}}
               IN Cardinality({m \in ahead : ConnectionOf[m] = ConnectionOf[q[i]]})
                      < Slots[ConnectionOf[q[i]]]}

\* Those of queue q who start, at their first place in it, are S: members who do
\* not answer already and find a slot of their connection.
IsPass(r, q, rep, S) ==
    S = {i \in DOMAIN q :
            /\ ~r.stopped
            /\ First(q, i) /\ q[i] \notin Flying(rep)
            /\ LET ahead == Flying(rep) \cup {q[k] : k \in {n \in S : n < i}}
               IN Cardinality({m \in ahead : ConnectionOf[m] = ConnectionOf[q[i]]})
                      < Slots[ConnectionOf[q[i]]]}

\* The places P of a queue, in order.
InOrder(P) == {s \in [1..Cardinality(P) -> P] : \A i, j \in DOMAIN s : i < j => s[i] < s[j]}

\* processQueue goes on with run r, queue q and replies rep: startReady, and when
\* nobody answers, the judge is asked (continueByJudge) or the run is over.
GoOn(r, q, rep, res) ==
    \E S \in SUBSET (DOMAIN q) :
       LET started == {q[i] : i \in S}
           now == [m \in Members |-> IF m \in started THEN NewReply ELSE rep[m]]
           quiet == Flying(now) = {}
       IN /\ IsPass(r, q, rep, S)
          /\ \/ /\ ~quiet
                /\ run' = [r EXCEPT !.at = "working"]
                /\ UNCHANGED waiting
                /\ \E place \in InOrder(DOMAIN q \ S) : queue' = [n \in DOMAIN place |-> q[place[n]]]
                /\ reply' = now /\ reserved' = res
             \/ /\ quiet
                /\ ~r.stopped /\ r.used < ChainLimit /\ r.last # {}
                /\ run' = [r EXCEPT !.at = "judging"]
                /\ UNCHANGED waiting
                /\ queue' = <<>> /\ reply' = now /\ reserved' = res
             \/ quiet /\ EndRun

----------------------------------------------------------------------------
(* The user.                                                                *)

\* skipReaction, skipThreadGenerationReactions.
SkipReactions ==
    /\ reaction' = [l \in Links |->
                      IF job[l] # "none" /\ reaction[l] \in {"no", "pending", "running"}
                      THEN "skipped" ELSE reaction[l]]
    /\ cut' = cut \cup ({turn} \ {0})
    /\ turn' = 0
    /\ UNCHANGED <<attempts, work, halting>>

\* stop(): nobody is woken any more, and who answers is cut.
HaltRun ==
    /\ run' = IF run.at = "none" THEN run ELSE [run EXCEPT !.stopped = TRUE]
    /\ queue' = <<>>
    /\ reserved' = {}
    /\ UNCHANGED reply

\* sendMessage: a message cuts in, and waits for what it cut.
Send ==
    /\ service = "on"
    /\ Spend("sends")
    /\ SkipReactions
    /\ IF run.at # "none" \/ order
       THEN HaltRun /\ waiting' = TRUE
       ELSE run' = NewRun /\ UNCHANGED <<queue, reply, reserved, waiting>>
    /\ UNCHANGED <<order, job, source, scheduled, service>>

\* The eight seconds of stop() are over: the message finds the room held, and is refused.
WaitTimesOut ==
    /\ waiting
    /\ waiting' = FALSE
    /\ UNCHANGED <<run, queue, reply, reserved, order, job, source, reactionVars,
                   scheduled, service, left>>

\* POST /interrupt.  It cuts a reaction, and looks for a run once that has ended.
Interrupt ==
    /\ service = "on" /\ IsRunning
    /\ Spend("mishaps")
    /\ HaltRun
    /\ cut' = cut \cup ({turn} \ {0})
    /\ halting' = halting \cup ({turn} \ {0})
    /\ UNCHANGED <<waiting, order, job, source, reaction, attempts, work, turn,
                   scheduled, service>>

\* It has waited eight seconds for the reaction.
InterruptTimesOut(l) ==
    /\ l \in halting
    /\ HaltRun
    /\ halting' = halting \ {l}
    /\ UNCHANGED <<waiting, order, job, source, reaction, attempts, work, turn, cut,
                   scheduled, service, left>>

Unreacted == UNCHANGED <<order, job, reactionVars, service, left>>

\* The translated message is stored, and its addressees are asked, or the judge for one.
Deliver ==
    /\ run.at = "preparing" /\ ~run.stopped
    /\ source' = [l \in Links |-> IF source[l] = "stored" THEN "overtaken" ELSE source[l]]
    /\ \/ /\ run' = [run EXCEPT !.at = "routing"]
          /\ UNCHANGED <<queue, reply, reserved, waiting>>
       \/ \E R \in SUBSET Members : \E q \in Orders(R) : GoOn(run, q, reply, reserved)
    /\ UNCHANGED scheduled
    /\ Unreacted

\* It was stopped before it was stored, or its preparation failed.
PreparationFails ==
    /\ run.at = "preparing"
    /\ EndRun
    /\ UNCHANGED <<source, scheduled>>
    /\ Unreacted

\* routeByJudge: one member at most, queued even if stop() has emptied the queue.
Route ==
    /\ run.at = "routing"
    /\ \E q \in {<<>>} \cup {<<m>> : m \in Members} : GoOn(run, q, reply, reserved)
    /\ UNCHANGED <<source, scheduled>>
    /\ Unreacted

----------------------------------------------------------------------------
(* The members.                                                             *)

\* Mutant: what other replies have reserved is not counted.
ReservableAlone(m, R) ==
    /\ ~run.stopped /\ m \notin R
    /\ R # {} => run.used + Cardinality(R) <= ChainLimit

\* reserve(): m may call R, within what the wakes of the others leave.
Reservable(m, R) ==
    /\ ~run.stopped /\ m \notin R
    /\ R # {} => run.used + Cardinality({e \in reserved : e[1] # m}) + Cardinality(R)
                    <= ChainLimit

Reserve(m, R) == reserved' = {e \in reserved : e[1] # m} \cup ({m} \X R)

\* The tool that routes the reply (registerChatReply's handler).
Call(m) ==
    /\ reply[m].at = "answering"
    /\ \E R \in SUBSET Members : Reservable(m, R) /\ Reserve(m, R)
    /\ reply' = [reply EXCEPT ![m].routed = TRUE]
    /\ UNCHANGED <<run, queue, waiting, source, scheduled>>
    /\ Unreacted

\* The model has answered: whom the text mentions or answers is called, unless the
\* reply was routed, nobody is to be called or reserve() throws; then it is translated.
Answer(m) ==
    /\ reply[m].at = "answering"
    /\ reply' = [reply EXCEPT ![m].at = "translating"]
    /\ \/ UNCHANGED reserved
       \/ /\ ~reply[m].routed
          /\ \E R \in SUBSET Members : Reservable(m, R) /\ Reserve(m, R)
    /\ UNCHANGED <<run, queue, waiting, source, scheduled>>
    /\ Unreacted

Hook == scheduled' = (scheduled \/ service = "on")

\* The reply of m is over; its message is what, "stored" or "lost".
Leave(m, r, q, res, what) ==
    /\ GoOn(r, q, [reply EXCEPT ![m] = NoReply], res)
    /\ source' = [l \in Links |-> IF l = reply[m].link THEN what ELSE source[l]]
    /\ Hook
    /\ Unreacted

\* Its message is stored as completed, and wakes those it called.
Store(m) ==
    /\ reply[m].at = "translating"
    /\ LET own == {e \in reserved : e[1] = m}
           called == {e[2] : e \in own}
           now == [run EXCEPT !.last = {m}]
       IN \/ run.stopped /\ Leave(m, now, queue, reserved, "stored")
          \/ /\ ~run.stopped
             /\ \E s \in Orders(called) :
                   Leave(m, [now EXCEPT !.used = @ + Cardinality(called)], queue \o s,
                         reserved \ own, "stored")

\* It failed or was interrupted: what there is of it is stored, and calls nobody.
\* Or nothing is: persist() throws, twice.
Fail(m) ==
    /\ reply[m].at # "none"
    /\ LET others == {e \in reserved : e[1] # m}
       IN \/ /\ reply[m].at = "answering"
             /\ Leave(m, [run EXCEPT !.last = {}], queue, others, "stored")
          \/ Leave(m, run, queue, others, "lost")

\* Mutant: the judge's turn does not count.
JudgeEndsFree ==
    /\ run.at = "judging"
    /\ \/ \E m \in Members \ run.last : ~run.stopped /\ GoOn(run, <<m>>, reply, reserved)
       \/ EndRun
    /\ UNCHANGED <<source, scheduled>>
    /\ Unreacted

\* continueByJudge has its answer: another member speaks on, as one more wake.
JudgeEnds ==
    /\ run.at = "judging"
    /\ \/ \E m \in Members \ run.last :
             ~run.stopped /\ GoOn([run EXCEPT !.used = @ + 1], <<m>>, reply, reserved)
       \/ EndRun
    /\ UNCHANGED <<source, scheduled>>
    /\ Unreacted

----------------------------------------------------------------------------
(* Generations, and the reactions to their end.                             *)

\* linkChatGeneration: a reply asks for a generation.
SubmitJob(m, l) ==
    /\ reply[m].at = "answering" /\ reply[m].link = 0
    /\ job[l] = "none" /\ \A k \in 1..(l - 1) : job[k] # "none"
    /\ Spend("jobs")
    /\ job' = [job EXCEPT ![l] = "running"]
    /\ reply' = [reply EXCEPT ![m].link = l]
    /\ UNCHANGED <<run, queue, reserved, waiting, order, source, reactionVars,
                   scheduled, service>>

\* The queue publishes the terminal status of the last of them.
JobEnds(l) ==
    /\ Up /\ job[l] = "running"
    /\ job' = [job EXCEPT ![l] = "done"]
    /\ Hook
    /\ UNCHANGED <<roomVars, order, source, reactionVars, service, left>>

\* Mutant: the room is not looked at.
EligibleBusy(l) == source[l] = "stored"

\* eligible(): its message is the room's news, and nobody holds the room.
Eligible(l) == source[l] = "stored" /\ ~IsRunning

\* The beginning of react(), for each candidate: the row is made, and skipped at once
\* if the reaction may not be.  An order, or a message still to be written, is waited for.
TryAll(row) ==
    LET tried == {l \in Links :
                    /\ job[l] = "done" /\ row[l] \in {"no", "pending"} /\ work[l] = "no"
                    /\ ~order
                    /\ source[l] \in {"none", "lost"} => ~IsRunning}
    IN /\ reaction' = [l \in Links |-> IF l \notin tried THEN row[l]
                                      ELSE IF Eligible(l) THEN "pending" ELSE "skipped"]
       /\ work' = [l \in Links |-> IF l \in tried /\ Eligible(l) THEN "previews" ELSE work[l]]

Reconcile ==
    /\ scheduled
    /\ scheduled' = FALSE
    /\ TryAll(reaction)
    /\ UNCHANGED <<roomVars, order, job, source, attempts, turn, cut, halting, service, left>>

\* The previews are loaded.  Who still may react takes the room, once.
ClaimReaction(l) ==
    /\ work[l] = "previews"
    /\ \/ /\ Eligible(l) /\ reaction[l] = "pending"
          /\ reaction' = [reaction EXCEPT ![l] = "running"]
          /\ attempts' = [attempts EXCEPT ![l] = @ + 1]
          /\ work' = [work EXCEPT ![l] = "model"]
          /\ turn' = l
       \/ /\ ~Eligible(l) \/ reaction[l] # "pending"
          /\ reaction' = [reaction EXCEPT ![l] = IF @ = "pending" THEN "skipped" ELSE @]
          /\ work' = [work EXCEPT ![l] = "no"]
          /\ UNCHANGED <<attempts, turn>>
    /\ UNCHANGED <<roomVars, order, job, source, cut, halting, scheduled, service, left>>

\* The turn of reaction l is over; an interrupt that waited for it stops what runs now.
EndTurn(l) ==
    /\ work[l] = "model"
    /\ work' = [work EXCEPT ![l] = "no"]
    /\ turn' = IF turn = l THEN 0 ELSE turn
    /\ cut' = cut \ {l}
    /\ halting' = halting \ {l}
    /\ IF l \in halting THEN HaltRun ELSE UNCHANGED <<run, queue, reserved, reply>>
    /\ Hook
    /\ UNCHANGED <<waiting, order, job, source, attempts, service, left>>

\* persist(): the message of the reaction is stored with the row.
React(l) ==
    /\ l \notin cut /\ reaction[l] = "running"
    /\ reaction' = [reaction EXCEPT ![l] = "done"]
    /\ EndTurn(l)

\* It was cut: the row is skipped, if the one who cut it has not done so, or failed,
\* if the signal was seen by the last check before persist().
DropReaction(l) ==
    /\ l \in cut
    /\ \E end \in {"skipped", "failed"} :
          reaction' = [reaction EXCEPT ![l] = IF @ = "running" THEN end ELSE @]
    /\ EndTurn(l)

\* What react() catches.
ReactionFails(l) ==
    /\ l \notin cut
    /\ reaction' = [reaction EXCEPT ![l] = IF @ \in {"pending", "running"} THEN "failed" ELSE @]
    /\ \/ EndTurn(l)
       \/ /\ work[l] = "previews"
          /\ work' = [work EXCEPT ![l] = "no"]
          /\ UNCHANGED <<roomVars, order, job, source, attempts, turn, cut, halting,
                         scheduled, service, left>>

----------------------------------------------------------------------------
(* Orders, and the process.                                                 *)

\* An order on a reply holds the room (beginChatOrderRun).
BeginOrder ==
    /\ service = "on" /\ ~IsRunning
    /\ Spend("mishaps")
    /\ order' = TRUE
    /\ UNCHANGED <<roomVars, job, source, reactionVars, scheduled, service>>

\* Mutant: its end tells nobody.
OrderEndsUnheard ==
    /\ order
    /\ order' = FALSE
    /\ PassOn
    /\ UNCHANGED <<queue, reply, reserved, job, source, reactionVars, scheduled, service, left>>

\* Its end tells the reactions and passes the room on (unregister and run.end).
OrderEnds ==
    /\ order
    /\ order' = FALSE
    /\ PassOn
    /\ Hook
    /\ UNCHANGED <<queue, reply, reserved, job, source, reactionVars, service, left>>

\* ChatGenerationReactionService.stop, up to its wait.
ShutDown ==
    /\ service = "on"
    /\ Spend("mishaps")
    /\ service' = "stopping"
    /\ scheduled' = FALSE
    /\ reaction' = [l \in Links |-> IF reaction[l] = "pending" \/ (l = turn /\ reaction[l] = "running")
                                   THEN "skipped" ELSE reaction[l]]
    /\ cut' = cut \cup ({turn} \ {0})
    /\ turn' = 0
    /\ UNCHANGED <<roomVars, order, job, source, attempts, work, halting>>

\* The process ends, and its memory with it: replies that are not stored never will be.
Vanish ==
    /\ service' = "off"
    /\ run' = NoRun /\ queue' = <<>> /\ reserved' = {} /\ waiting' = FALSE
    /\ reply' = [m \in Members |-> NoReply]
    /\ order' = FALSE /\ turn' = 0 /\ cut' = {} /\ halting' = {} /\ scheduled' = FALSE
    /\ work' = [l \in Links |-> "no"]
    /\ source' = [l \in Links |-> IF job[l] # "none" /\ source[l] = "none" THEN "lost"
                                  ELSE source[l]]
    /\ UNCHANGED <<job, reaction, attempts>>

Exit == service = "stopping" /\ Vanish /\ UNCHANGED left
Crash == service = "on" /\ Spend("mishaps") /\ Vanish

\* start(): a reaction that was running is not tried again, the others are.
Restart ==
    /\ service = "off"
    /\ service' = "on"
    /\ TryAll([l \in Links |-> IF reaction[l] = "running" THEN "failed" ELSE reaction[l]])
    /\ UNCHANGED <<roomVars, order, job, source, attempts, turn, cut, halting, scheduled, left>>

----------------------------------------------------------------------------
ReplyStep(m) == Answer(m) \/ Store(m) \/ Fail(m)
ReactionStep(l) == ClaimReaction(l) \/ React(l) \/ DropReaction(l) \/ ReactionFails(l)

Next ==
    \/ Send \/ WaitTimesOut \/ Interrupt
    \/ Deliver \/ PreparationFails \/ Route \/ JudgeEnds
    \/ \E m \in Members : Call(m) \/ ReplyStep(m) \/ \E l \in Links : SubmitJob(m, l)
    \/ \E l \in Links : JobEnds(l) \/ ReactionStep(l) \/ InterruptTimesOut(l)
    \/ Reconcile
    \/ BeginOrder \/ OrderEnds
    \/ ShutDown \/ Exit \/ Crash \/ Restart

\* Translations, models and the judge answer or time out; an immediate runs; orders
\* end; and a process that stops does, and is started again.
Fairness ==
    /\ WF_vars(Deliver \/ PreparationFails) /\ WF_vars(Route) /\ WF_vars(JudgeEnds)
    /\ \A m \in Members : WF_vars(ReplyStep(m))
    /\ \A l \in Links : WF_vars(ReactionStep(l))
    /\ WF_vars(Reconcile) /\ WF_vars(OrderEnds) /\ WF_vars(Exit) /\ WF_vars(Restart)

Spec == Init /\ [][Next]_vars /\ Fairness

----------------------------------------------------------------------------
TypeOK ==
    /\ run \in [at : {"none", "preparing", "routing", "working", "judging"},
               stopped : BOOLEAN, used : 0..ChainLimit, last : SUBSET Members]
    /\ queue \in Seq(Members)
    /\ reply \in [Members -> [at : {"none", "answering", "translating"},
                             link : Links \cup {0}, routed : BOOLEAN]]
    /\ reserved \subseteq Members \X Members
    /\ waiting \in BOOLEAN /\ order \in BOOLEAN /\ scheduled \in BOOLEAN
    /\ job \in [Links -> {"none", "running", "done"}]
    /\ source \in [Links -> {"none", "stored", "overtaken", "lost"}]
    /\ reaction \in [Links -> {"no", "pending", "running", "done", "skipped", "failed"}]
    /\ attempts \in [Links -> Nat]
    /\ work \in [Links -> {"no", "previews", "model"}]
    /\ turn \in Links \cup {0} /\ cut \subseteq Links /\ halting \subseteq Links
    /\ service \in {"on", "stopping", "off"}
    /\ left \in [{"sends", "jobs", "mishaps"} -> Nat]

\* A run, an order and a reaction hold the room one at a time, a reaction as the
\* running row it is; a message waits only for an order or for a run that is stopped.
OneHolder ==
    /\ ~(run.at # "none" /\ order) /\ (turn # 0 => run.at = "none" /\ ~order)
    /\ turn # 0 => reaction[turn] = "running" /\ work[turn] = "model"
    /\ waiting => order \/ run.stopped

\* The wakes after one user message, with those that are promised to replies in
\* progress, are within the room's limit (chatGroupStore.ts:6).
WakesWithinLimit == run.used + Cardinality(reserved) <= ChainLimit

\* A connection carries no more replies than it may.
SlotsRespected ==
    \A m \in Members : Cardinality({n \in Flying(reply) : ConnectionOf[n] = ConnectionOf[m]})
                          <= Slots[ConnectionOf[m]]

\* A reaction is tried once, and whatever becomes of the process it is not tried again.
TriedOnce ==
    \A l \in Links : attempts[l] <= IF reaction[l] \in {"no", "pending"} THEN 0 ELSE 1

\* The room is sound: nobody shares it, and no limit of it is passed
\* (groupChatService.ts:260, :441 and :477, llmChatService.ts:813).
RoomInv == TypeOK /\ OneHolder /\ WakesWithinLimit /\ SlotsRespected /\ TriedOnce

\* Once the room is told to stop, nobody starts to answer, whoever was called, picked
\* by the judge or waiting for a slot (groupChatService.ts:63).
NobodyWokenAfterStop ==
    [][run.stopped /\ run'.stopped =>
         \A m \in Members : reply'[m].at = "answering" => reply[m].at = "answering"]_vars

\* A reaction is stored only where nobody else writes and the user has not spoken
\* since (chatGenerationReactions.ts:98, llmChatService.ts:970).
ReactionYields ==
    [][\A l \in Links : reaction'[l] = "done" /\ reaction[l] # "done" =>
          run.at = "none" /\ ~order /\ ~waiting /\ source[l] = "stored"]_vars

\* The room comes free: members, who wake each other, and the judge come to an end
\* (groupChatService.ts:473).
RunEnds == run.at # "none" ~> run.at = "none"

\* Replies whose generations have ended get their reactions or are denied them,
\* whatever order or process was in between (chatGenerationReactions.ts:43).
Undecided(l) ==
    /\ job[l] = "done" /\ source[l] \in {"stored", "overtaken"}
    /\ reaction[l] \in {"no", "pending", "running"}

DueIsDecided == (\E l \in Links : Undecided(l)) ~> (\A l \in Links : ~Undecided(l))
=============================================================================
