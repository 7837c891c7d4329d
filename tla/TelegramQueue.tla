---------------------------- MODULE TelegramQueue ----------------------------
(***************************************************************************)
(* The queue of Telegram notices (scripts/alerts.py) and the fallback that *)
(* empties it when the bot does not (shomer_telegram_relay.py).            *)
(*                                                                         *)
(* A notice is a row.  The bot of another project reads the pending rows   *)
(* and sends them; every leader of the service reads the rows pending for  *)
(* 60 s and sends them itself.  A reader takes no row before it sends it:  *)
(* it reads a list, and for each of its rows posts the message and then    *)
(* writes the row's new state.                                             *)
(*                                                                         *)
(* Abstracted: the text of a notice is whether it carries an allowed tag;  *)
(* the age of a row is whether 60 s have passed; the copy to the NOC and   *)
(* the count of real sends, which no one reads back.                       *)
(***************************************************************************)
EXTENDS PollerLeader

CONSTANTS
  Notices,     \* messages asked for, one row each
  Allowed,     \* those with a tag of ALLOWED_TAGS
  Bot,         \* the bot that relays the queue
  NoNotice,
  MaxFaults,   \* bound: faults of a behaviour
  Faults       \* what may fail, a subset of FaultKinds

FaultKinds == {"lock", "crash", "bot", "queue", "telegram", "answer", "database"}

ASSUME NoticeAssumption == Allowed \subseteq Notices /\ NoNotice \notin Notices
ASSUME BotAssumption    == Bot \notin Workers
ASSUME FaultAssumption  == Faults \subseteq FaultKinds /\ MaxFaults \in Nat

VARIABLES
  estado,      \* state of each row, "none" before it is asked for
  due,         \* rows pending for PENDING_FALLBACK_TIMEOUT_SEC
  hand,        \* rows a reader read and has not treated
  posted,      \* row a reader posted and has not marked
  answer,      \* what Telegram answered to that post
  copies,      \* messages that reached the chat
  unmarked,    \* notices posted by a reader that could not mark the row
  faults       \* faults so far

rowVars    == <<estado, due>>
readerVars == <<hand, posted, answer>>
vars == <<leaderVars, rowVars, readerVars, copies, unmarked, faults>>

Readers == Workers \cup {Bot}
Sent    == {"enviado", "enviado_directo_fallback"}

Fault(kind) == kind \in Faults /\ faults < MaxFaults /\ faults' = faults + 1
-----------------------------------------------------------------------------
(* send_telegram_alert: no tag or no credentials, and nothing is queued; a *)
(* database that cannot be written loses the notice.                       *)
Ask(n) ==
  /\ estado[n] = "none"
  /\ \/ /\ n \in Allowed /\ estado' = [estado EXCEPT ![n] = "pendiente"]
        /\ UNCHANGED faults
     \/ /\ n \notin Allowed /\ estado' = [estado EXCEPT ![n] = "refused"]
        /\ UNCHANGED faults
     \/ Fault("queue") /\ estado' = [estado EXCEPT ![n] = "refused"]
  /\ UNCHANGED <<leaderVars, due, readerVars, copies, unmarked>>

MinutePasses(n) ==
  /\ estado[n] = "pendiente" /\ n \notin due /\ due' = due \cup {n}
  /\ UNCHANGED <<leaderVars, estado, readerVars, copies, unmarked, faults>>

(* Mutant of Found: the age of a row is compared the wrong way round.      *)
Found_Fresh(p) ==
  {n \in Notices : estado[n] = "pendiente" /\ (p = Bot \/ n \notin due)}

(* The rows a reader finds: all the pending ones, or the ones that waited. *)
Found(p) == {n \in Notices : estado[n] = "pendiente" /\ (p = Bot \/ n \in due)}

Idle(p) == hand[p] = {} /\ posted[p] = NoNotice

Read(p) ==
  /\ p = Bot \/ p \in leads
  /\ Idle(p) /\ Found(p) # {} /\ hand' = [hand EXCEPT ![p] = Found(p)]
  /\ UNCHANGED <<leaderVars, rowVars, posted, answer, copies, unmarked, faults>>

(* _enviar_directo: the post, whose answer may be lost on its way back.    *)
Post(p) == \E n \in hand[p] :
  /\ posted[p] = NoNotice /\ posted' = [posted EXCEPT ![p] = n]
  /\ hand' = [hand EXCEPT ![p] = @ \ {n}]
  /\ \/ /\ copies' = [copies EXCEPT ![n] = @ + 1]
        /\ answer' = [answer EXCEPT ![p] = TRUE] /\ UNCHANGED faults
     \/ /\ Fault("answer") /\ copies' = [copies EXCEPT ![n] = @ + 1]
        /\ answer' = [answer EXCEPT ![p] = FALSE]
     \/ /\ Fault("telegram") /\ UNCHANGED copies
        /\ answer' = [answer EXCEPT ![p] = FALSE]
  /\ UNCHANGED <<leaderVars, rowVars, unmarked>>

MarkOf(p) ==
  IF p = Bot THEN "enviado"
  ELSE IF answer[p] THEN "enviado_directo_fallback" ELSE "fallo_fallback"

(* The row gets its new state; a bot whose post failed leaves it pending.  *)
Mark(p) == \E n \in {posted[p]} :
  /\ n # NoNotice /\ posted' = [posted EXCEPT ![p] = NoNotice]
  /\ \/ estado' = (IF p = Bot /\ ~answer[p] THEN estado
                     ELSE [estado EXCEPT ![n] = MarkOf(p)])
        /\ unmarked' = (IF p = Bot /\ ~answer[p] THEN unmarked \cup {n} ELSE unmarked)
        /\ UNCHANGED <<hand, faults>>
     \/ /\ Fault("database")                \* the sweep ends with the error
        /\ hand' = [hand EXCEPT ![p] = {}] /\ unmarked' = unmarked \cup {n}
        /\ UNCHANGED estado
  /\ UNCHANGED <<leaderVars, due, answer, copies>>

(* What a reader that stops had in hand goes with it.                      *)
Forget(p) ==
  /\ hand' = [hand EXCEPT ![p] = {}] /\ posted' = [posted EXCEPT ![p] = NoNotice]
  /\ unmarked' = unmarked \cup ({posted[p]} \ {NoNotice})

WorkerStarts(w) ==
  /\ \/ Start(w) /\ UNCHANGED faults
     \/ StartUnlocked(w) /\ Fault("lock")
  /\ UNCHANGED <<rowVars, readerVars, copies, unmarked>>

WorkerCrashes(w) ==
  /\ Stop(w) /\ Fault("crash") /\ Forget(w)
  /\ UNCHANGED <<rowVars, answer, copies>>

BotRestarts ==
  /\ Fault("bot") /\ ~Idle(Bot) /\ Forget(Bot)
  /\ UNCHANGED <<leaderVars, rowVars, answer, copies>>
-----------------------------------------------------------------------------
Init ==
  /\ LeaderInit
  /\ estado = [n \in Notices |-> "none"] /\ due = {}
  /\ hand = [p \in Readers |-> {}] /\ posted = [p \in Readers |-> NoNotice]
  /\ answer = [p \in Readers |-> FALSE]
  /\ copies = [n \in Notices |-> 0] /\ unmarked = {} /\ faults = 0

Relay(w) == Read(w) \/ Post(w) \/ Mark(w)

Next ==
  \/ \E n \in Notices : Ask(n) \/ MinutePasses(n)
  \/ \E p \in Readers : Read(p) \/ Post(p) \/ Mark(p)
  \/ \E w \in Workers : WorkerStarts(w) \/ WorkerCrashes(w)
  \/ BotRestarts

Spec == Init /\ [][Next]_vars

(* The service manager starts its workers again, and watch_pending_        *)
(* fallback_loop comes round every 20 s.  Nothing is asked of the bot.     *)
FairSpec ==
  /\ Spec
  /\ \A n \in Notices : WF_vars(MinutePasses(n))
  /\ \A w \in Workers : WF_vars(WorkerStarts(w)) /\ WF_vars(Relay(w))
-----------------------------------------------------------------------------
TypeOK ==
  /\ LeaderTypeOK
  /\ estado \in [Notices -> {"none", "refused", "pendiente", "fallo_fallback"} \cup Sent]
  /\ due \subseteq Notices /\ hand \in [Readers -> SUBSET Notices]
  /\ posted \in [Readers -> Notices \cup {NoNotice}] /\ answer \in [Readers -> BOOLEAN]
  /\ copies \in [Notices -> Nat] /\ unmarked \subseteq Notices /\ faults \in 0..MaxFaults

(* The rows tell the truth: one marked as sent reached the chat, and one   *)
(* still pending did not, unless its sender is about to mark it or could   *)
(* not.                                                                    *)
MarksAgree ==
  \A n \in Notices :
    /\ estado[n] \in Sent => copies[n] > 0
    /\ estado[n] \in {"pendiente", "refused"} /\ copies[n] > 0
         => n \in unmarked \/ \E p \in Readers : posted[p] = n

(* The queue as its callers see it.                                        *)
Status ==
  [n \in Notices |->
     IF copies[n] > 0 THEN "delivered"
     ELSE CASE estado[n] = "none"           -> "new"
            [] estado[n] = "refused"        -> "refused"
            [] estado[n] = "fallo_fallback" -> "given_up"
            [] OTHER                        -> "accepted"]

Delivery == INSTANCE NoticeDelivery WITH status <- Status

(* "Nunca se quede sin avisar solo porque el bot esté caído": the queue    *)
(* implements NoticeDelivery, whatever the bot does and whichever worker   *)
(* leads.                                                                  *)
NoticesDelivered == Delivery!Spec
=============================================================================
