-------------------------------- MODULE Room --------------------------------
(***************************************************************************)
(* The event loop of a match (internal/api/room.go and room_bot.go): one    *)
(* goroutine owns the engine (module Turns), feeds it the actions of        *)
(* connected clients, plays the seats nobody is connected to, broadcasts    *)
(* the state, and arms the timer of a claim window; timers run in           *)
(* goroutines of their own and answer over channels.  Only how sockets come *)
(* and go is abstract here: module Hub has the details.                     *)
(***************************************************************************)
EXTENDS Turns

CONSTANTS
    Humans,      \* seats that belong to a person; the others are bots
    MayDrop,     \* the people whose socket may drop
    TimerFires,  \* may the one-hour window timer expire?
    MaxStale     \* bound on the outdated window goroutines kept track of

ASSUME RoomAssumption ==
    /\ Humans \subseteq Seats /\ Humans # {}
    /\ MayDrop \subseteq Humans
    /\ TimerFires \in BOOLEAN /\ MaxStale \in Nat

VARIABLES
    connected,      \* the seats in r.Seats; all others are automated
    dropped,        \* connected seats whose socket is gone: grace is running
    loop,           \* what the room goroutine is doing
    botTick,        \* "none"; "sleeping" and "due": botTickPending
    unsent,         \* has the state changed since the last broadcast?
    timer,          \* the newest window goroutine, and why it woke up
    stale,          \* how many older ones still wait for InterruptChan
    sending,        \* one has passed its epoch check, with this reason
    interruptChan,  \* is there a signal in InterruptChan?
    timerResolve    \* the signal in TimerResolveChan, with its reason

timerVars == <<timer, stale, sending, interruptChan, timerResolve>>
vars == <<turnVars, connected, dropped, loop, botTick, unsent, timerVars>>

Automated(s) == s \notin connected

(* Where the goroutine is: `at` in the select, in the loop of               *)
(* advanceAutomatedSeatsN ("drive"), in its inner loops over the seats      *)
(* ("window", "ready") with the next seat and the submitted flag, or in the *)
(* code after the call ("leave"); `cause` is the case of the select.        *)
At(where, cause) == [at |-> where, cause |-> cause, seat |-> 0, submitted |-> FALSE]
Select == At("select", "none")

Init ==
    /\ TurnsInit
    /\ connected = Humans /\ dropped = {}
    /\ loop = At("boot", "start")
    /\ botTick = "none" /\ unsent = FALSE
    /\ timer = "none" /\ stale = 0 /\ sending = "none"
    /\ interruptChan = FALSE /\ timerResolve = "none"

-----------------------------------------------------------------------------
(* The bots' work. *)

(* Fault: a person whose socket has dropped is not waited for. *)
HasConnectedInterruptSeatNow == offered \cap (connected \ dropped) # {}

(* hasConnectedInterruptSeat: is a connected person among the seats that    *)
(* were offered something?                                                  *)
HasConnectedInterruptSeat == offered \cap connected # {}

(* botWorkPending, once `seats` are connected. *)
BotWorkPending(seats) ==
    \/ phase = "PLAYER_TURN" /\ activePlayer \notin seats
    \/ phase = "WAIT_DISCARDS" /\ offered \cap seats = {}
    \/ phase = "ROUND_END" /\ ~(Seats \subseteq seats \cup ready)

(* Fault: a tick is forgotten when the seat on turn has just become vacant. *)
MaybeScheduleBotTickOld(seats) ==
    botTick' = IF botTick = "none" /\ BotWorkPending(connected) THEN "sleeping" ELSE botTick

MaybeScheduleBotTick(seats) ==
    botTick' = IF botTick = "none" /\ BotWorkPending(seats) THEN "sleeping" ELSE botTick

(* After one round of its outer loop the tick is done; every other caller   *)
(* goes on (for 200 rounds, more than a table with a person can use).       *)
NextRound(cause) == IF cause = "tick" THEN At("leave", cause) ELSE At("drive", cause)

Boot ==
    /\ loop.at = "boot"
    /\ Start
    /\ unsent' = FALSE
    /\ loop' = At("drive", "start")
    /\ UNCHANGED <<connected, dropped, botTick, timerVars>>

(* A bot's turn, up to the action that ends it. *)
DriveTurn ==
    /\ loop.at = "drive" /\ phase = "PLAYER_TURN"
    /\ IF Automated(activePlayer)
       THEN /\ Discard(activePlayer) \/ Declare(activePlayer)
            /\ unsent' = FALSE
            /\ loop' = NextRound(loop.cause)
       ELSE /\ loop' = At("leave", loop.cause)
            /\ UNCHANGED <<turnVars, unsent>>
    /\ UNCHANGED <<connected, dropped, botTick, timerVars>>

DriveOther ==
    /\ loop.at = "drive" /\ phase # "PLAYER_TURN"
    /\ loop' = CASE phase = "WAIT_DISCARDS" -> At("window", loop.cause)
                 [] phase = "ROUND_END" -> At("ready", loop.cause)
                 [] OTHER -> At("leave", loop.cause)
    /\ UNCHANGED <<turnVars, connected, dropped, botTick, unsent, timerVars>>

(* The automated seat the loop over the seats comes to next: one with       *)
(* ValidActions that count.  The phase is not checked again inside the      *)
(* loop: once the window has resolved this may be the seat whose turn it is *)
(* now.                                                                     *)
CanPlay(s) == IF phase = "WAIT_DISCARDS" THEN s \in offered
              ELSE phase = "PLAYER_TURN" /\ s = activePlayer
First(Pred(_)) == { s \in loop.seat .. 3 : Pred(s) /\ \A q \in loop.seat .. s - 1 : ~Pred(q) }
NextBot == First(LAMBDA s : Automated(s) /\ CanPlay(s))

Submitted(s) == [loop EXCEPT !.seat = s + 1, !.submitted = TRUE]

WindowSeat ==
    /\ loop.at = "window"
    /\ \E s \in NextBot :
          /\ Respond(s) \/ Discard(s) \/ Declare(s) \/ KeepTurn(s)
          /\ loop' = Submitted(s)
    /\ unsent' = (unsent \/ <<phase, activePlayer, offered>>' # <<phase, activePlayer, offered>>)
    /\ UNCHANGED <<connected, dropped, botTick, timerVars>>

(* After the loop: the window is resolved at once when a bot has responded  *)
(* and no connected person was offered anything.                            *)
WindowDone ==
    /\ loop.at = "window" /\ NextBot = {}
    /\ IF phase = "WAIT_DISCARDS" /\ (~loop.submitted \/ HasConnectedInterruptSeat)
       THEN /\ loop' = At("leave", loop.cause)
            /\ UNCHANGED <<turnVars, unsent>>
       ELSE /\ TimeOut \/ (phase # "WAIT_DISCARDS" /\ UNCHANGED turnVars)
            /\ unsent' = FALSE
            /\ loop' = NextRound(loop.cause)
    /\ UNCHANGED <<connected, dropped, botTick, timerVars>>

(* READY for the automated seats; when the next hand has started and seats  *)
(* are left, the engine's error ends the loop.                              *)
NextUnready == First(LAMBDA s : Automated(s) /\ s \notin ready)

ReadySeat ==
    /\ loop.at = "ready"
    /\ \E s \in NextUnready :
          IF phase = "ROUND_END"
          THEN Ready(s) /\ unsent' = TRUE /\ loop' = Submitted(s)
          ELSE loop' = At("leave", loop.cause) /\ UNCHANGED <<turnVars, unsent>>
    /\ UNCHANGED <<connected, dropped, botTick, timerVars>>

ReadyDone ==
    /\ loop.at = "ready" /\ NextUnready = {}
    /\ unsent' = (unsent /\ ~loop.submitted)
    /\ loop' = IF loop.submitted /\ phase # "ROUND_END"
               THEN NextRound(loop.cause) ELSE At("leave", loop.cause)
    /\ UNCHANGED <<turnVars, connected, dropped, botTick, timerVars>>

-----------------------------------------------------------------------------
(* The timer of a window. *)

(* armInterruptTimer: the previous goroutine is outdated, but it stays in   *)
(* its select until InterruptChan wakes it, and if it reads interruptEpoch  *)
(* while this writes it, it may see either value.                           *)
ArmInterruptTimer ==
    /\ interruptChan' = FALSE
    /\ timer' = "waiting"
    /\ stale' = IF timer = "waiting" /\ stale < MaxStale THEN stale + 1 ELSE stale
    /\ sending' \in {sending} \cup ({timer} \ {"none", "waiting"})
    /\ UNCHANGED timerResolve

TimerExpires ==
    /\ TimerFires
    /\ timer = "waiting"
    /\ timer' = "expired"
    /\ UNCHANGED <<turnVars, connected, dropped, loop, botTick, unsent,
                   stale, sending, interruptChan, timerResolve>>

(* The signal wakes one of the goroutines waiting for it; an outdated one   *)
(* fails its epoch check.                                                   *)
TimerCancelled ==
    /\ interruptChan
    /\ interruptChan' = FALSE
    /\ \/ timer = "waiting" /\ timer' = "cancelled" /\ stale' = stale
       \/ stale > 0 /\ stale' = stale - 1 /\ timer' = timer
    /\ UNCHANGED <<turnVars, connected, dropped, loop, botTick, unsent, sending, timerResolve>>

EpochCheck ==
    /\ timer \in {"expired", "cancelled"} /\ sending = "none"
    /\ timer' = "none" /\ sending' = timer
    /\ UNCHANGED <<turnVars, connected, dropped, loop, botTick, unsent,
                   stale, interruptChan, timerResolve>>

SendResolve ==
    /\ sending # "none"
    /\ sending' = "none"
    /\ timerResolve' = IF timerResolve = "none" THEN sending ELSE timerResolve
    /\ UNCHANGED <<turnVars, connected, dropped, loop, botTick, unsent,
                   timer, stale, interruptChan>>

(* What follows advanceAutomatedSeats in its caller: after a client's       *)
(* action (dispatchClientAction) the window timer is cancelled or armed,    *)
(* after anything else the bots' next step is scheduled.                    *)
Leave ==
    /\ loop.at = "leave"
    /\ loop' = Select
    /\ IF loop.cause \in {"start", "timer", "tick"}
       THEN MaybeScheduleBotTick(connected) /\ UNCHANGED timerVars
       ELSE /\ UNCHANGED botTick
            /\ IF loop.cause = "discard" /\ phase = "WAIT_DISCARDS" THEN ArmInterruptTimer
               ELSE IF loop.cause = "other" /\ phase # "WAIT_DISCARDS"
               THEN interruptChan' = TRUE /\ UNCHANGED <<timer, stale, sending, timerResolve>>
               ELSE UNCHANGED timerVars
    /\ UNCHANGED <<turnVars, connected, dropped, unsent>>

-----------------------------------------------------------------------------
(* The select. *)

(* dispatchClientAction, up to its call of advanceAutomatedSeats. *)
ClientDiscards(s) ==
    /\ loop.at = "select" /\ s \in connected
    /\ Discard(s)
    /\ unsent' = FALSE
    /\ loop' = At("drive", "discard")
    /\ UNCHANGED <<connected, dropped, botTick, timerVars>>

(* A response in a window.  The engine counts the pass of any seat but the   *)
(* discarder's, also of one that was offered nothing.                        *)
ClientResponds(s) ==
    /\ loop.at = "select" /\ s \in connected
    /\ Respond(s)
    /\ unsent' = FALSE
    /\ loop' = At("drive", "other")
    /\ UNCHANGED <<connected, dropped, botTick, timerVars>>

ClientReadies(s) ==
    /\ loop.at = "select" /\ s \in connected \ ready
    /\ Ready(s)
    /\ unsent' = FALSE
    /\ loop' = At("drive", "other")
    /\ UNCHANGED <<connected, dropped, botTick, timerVars>>

ClientDeclares(s) ==
    /\ loop.at = "select" /\ s \in connected
    /\ Declare(s) \/ KeepTurn(s)
    /\ unsent' = FALSE
    /\ loop' = At("drive", "other")
    /\ UNCHANGED <<connected, dropped, botTick, timerVars>>

(* resolveInterruptsFromTimer: only the phase is checked. *)
ResolveInterruptsFromTimer ==
    /\ loop.at = "select" /\ timerResolve # "none"
    /\ timerResolve' = "none"
    /\ IF phase = "WAIT_DISCARDS"
       THEN TimeOut /\ unsent' = FALSE /\ loop' = At("drive", "timer")
       ELSE UNCHANGED <<turnVars, unsent, loop>>
    /\ UNCHANGED <<connected, dropped, botTick, timer, stale, sending, interruptChan>>

TickElapses ==
    /\ botTick = "sleeping"
    /\ botTick' = "due"
    /\ UNCHANGED <<turnVars, connected, dropped, loop, unsent, timerVars>>

(* Fault: botTickPending is not reset, though the tick has been taken. *)
StepBotTickStillPending ==
    /\ loop.at = "select" /\ botTick = "due"
    /\ botTick' = "taken"
    /\ loop' = At("drive", "tick")
    /\ UNCHANGED <<turnVars, connected, dropped, unsent, timerVars>>

StepBotTick ==
    /\ loop.at = "select" /\ botTick = "due"
    /\ botTick' = "none"
    /\ loop' = At("drive", "tick")
    /\ UNCHANGED <<turnVars, connected, dropped, unsent, timerVars>>

(* handleSeatDisconnect with a grace period. *)
Drop(s) ==
    /\ loop.at = "select" /\ s \in (connected \cap MayDrop) \ dropped
    /\ dropped' = dropped \cup {s}
    /\ UNCHANGED <<turnVars, connected, loop, botTick, unsent, timerVars>>

(* releaseSeatAfterGrace; the match ends with its last person. *)
Release(s) ==
    /\ loop.at = "select" /\ s \in dropped
    /\ connected' = connected \ {s} /\ dropped' = dropped \ {s}
    /\ IF connected' = {}
       THEN loop' = At("stopped", "none") /\ UNCHANGED botTick
       ELSE loop' = loop /\ MaybeScheduleBotTick(connected')
    /\ UNCHANGED <<turnVars, unsent, timerVars>>

(* handleSeatReconnect; the returning client is sent the state. *)
Return(s) ==
    /\ loop.at = "select" /\ s \in MayDrop /\ (s \in dropped \/ s \notin connected)
    /\ connected' = connected \cup {s} /\ dropped' = dropped \ {s}
    /\ MaybeScheduleBotTick(connected')
    /\ UNCHANGED <<turnVars, loop, unsent, timerVars>>

ClientActs(s) == ClientDiscards(s) \/ ClientResponds(s) \/ ClientReadies(s) \/ ClientDeclares(s)
RoomRuns == Boot \/ DriveTurn \/ DriveOther \/ WindowSeat \/ WindowDone \/ ReadySeat \/ ReadyDone \/ Leave
Goroutines == TimerExpires \/ TimerCancelled \/ EpochCheck \/ SendResolve \/ TickElapses

Next ==
    \/ RoomRuns
    \/ Goroutines
    \/ ResolveInterruptsFromTimer
    \/ StepBotTick
    \/ \E s \in Humans : ClientActs(s) \/ Drop(s) \/ Release(s) \/ Return(s)

Spec == Init /\ [][Next]_vars

(* The goroutines are scheduled; of the channels that stay ready the        *)
(* room's select picks each sooner or later (it chooses at random).         *)
Fairness ==
    /\ WF_vars(RoomRuns)
    /\ WF_vars(TimerExpires) /\ WF_vars(TimerCancelled) /\ WF_vars(EpochCheck) /\ WF_vars(SendResolve)
    /\ WF_vars(TickElapses)
    /\ SF_vars(StepBotTick)
    /\ SF_vars(ResolveInterruptsFromTimer)
    /\ \A s \in Humans : SF_vars(Release(s))

(* People who see that they are to act do so, once: the table hides its     *)
(* buttons after the first response.                                        *)
Answer(s) ==
    \/ ClientDiscards(s)
    \/ s \in offered \ responded /\ ClientResponds(s)
    \/ ClientReadies(s)
Answering == \A s \in Humans : SF_vars(~unsent /\ Answer(s))

FairSpec == Spec /\ Fairness
AnsweredSpec == FairSpec /\ Answering

-----------------------------------------------------------------------------
Running == loop.at # "stopped"
Idle == loop.at = "select"

(* Every variable has its type. *)
TypeOK ==
    /\ phase \in {"INIT", "PLAYER_TURN", "WAIT_DISCARDS", "ROUND_END", "MATCH_END"}
    /\ activePlayer \in Seats
    /\ offered \subseteq Seats /\ responded \subseteq Seats /\ ready \subseteq Seats
    /\ connected \subseteq Humans /\ dropped \subseteq connected
    /\ loop.at \in {"boot", "select", "drive", "window", "ready", "leave", "stopped"}
    /\ loop.cause \in {"none", "start", "tick", "timer", "discard", "other"}
    /\ loop.seat \in 0 .. 4 /\ loop.submitted \in BOOLEAN
    /\ botTick \in {"none", "sleeping", "due"} /\ unsent \in BOOLEAN
    /\ timer \in {"none", "waiting", "expired", "cancelled"} /\ stale \in 0 .. MaxStale
    /\ {sending, timerResolve} \subseteq {"none", "expired", "cancelled"}
    /\ interruptChan \in BOOLEAN

(* The room never goes idle on work of its bots: whenever it waits in its   *)
(* select and a seat that nobody drives is to act, a tick is on its way.    *)
(* (dispatchClientAction schedules none: it relies on having drained the    *)
(* bots' work.)                                                             *)
NoBotWorkForgotten == Idle /\ BotWorkPending(connected) => botTick # "none"

(* A window that the bots close.                                            *)
BotsClose == loop.at = "window" /\ phase = "WAIT_DISCARDS" /\ phase' # phase

(* The bots close no window on a person by themselves: of those who        *)
(* have a seat - one whose socket has just dropped is given time to return  *)
(* - and were offered something, each has answered before, or some other    *)
(* seat that was offered nothing has passed in its place.  (The engine      *)
(* counts responses, and not whose they are: see EverybodyAsked.)           *)
PeopleAsked ==
    [][ BotsClose => Cardinality((offered \cap connected) \ responded)
                         <= Cardinality(responded \ offered) ]_vars

(* Seats that nobody drives play their turns, whoever comes and goes        *)
(* meanwhile: the turn gets to a person, or to a window or the hand's end.  *)
AutomatedTurnsPlayed ==
    (Running /\ phase = "PLAYER_TURN" /\ Automated(activePlayer))
        ~> (phase # "PLAYER_TURN" \/ ~Automated(activePlayer) \/ ~Running)

(* A window that people were shown closes when they answer and keep their  *)
(* connections, without the timer.                                         *)
WindowsClose ==
    (phase = "WAIT_DISCARDS")
        ~> (phase # "WAIT_DISCARDS" \/ (Idle /\ unsent) \/ connected # Humans \/ dropped # {})
-----------------------------------------------------------------------------
(* What the repository says and the room does not do. *)

(* BroadcastState "sends it to all connected players": an idle room has     *)
(* shown them the window it waits in ...                                    *)
WindowShown == Idle /\ phase = "WAIT_DISCARDS" => ~unsent

(* ... and the hand that has begun.                                         *)
HandShown == Idle /\ phase = "PLAYER_TURN" => ~unsent

(* docs/architecture.md: "The window resolves once every eligible seat has  *)
(* responded or the room's timer fires": the bots do not close one on a     *)
(* person who has not answered ...                                          *)
EverybodyAsked == [][ BotsClose => offered \cap connected \subseteq responded ]_vars

(* ... nor resolve one before each of themselves was asked.                 *)
BotsAsked ==
    [][ loop.at = "window" /\ loop'.at # "window" /\ phase = "WAIT_DISCARDS" /\ phase' # phase
            => offered \subseteq responded ]_vars

(* "The epoch counter prevents stale goroutines from resolving a newer      *)
(* cycle" (armInterruptTimer): a goroutine that was told that its window    *)
(* has closed resolves no other.                                            *)
CancelledTimerIsHarmless ==
    [][ timerResolve = "cancelled" /\ timerResolve' = "none" => UNCHANGED turnVars ]_vars

(* The same sentence of docs/architecture.md: every window an idle room     *)
(* waits in has its timer.                                                  *)
WindowTimed ==
    Idle /\ phase = "WAIT_DISCARDS" => timer # "none" \/ sending # "none" \/ timerResolve # "none"

(* "Bots resolve interrupts only once no connected human still has a        *)
(* pending call to make" (botWorkPending): then they do.                    *)
BotsResolve ==
    (Running /\ phase = "WAIT_DISCARDS" /\ offered \cap connected \subseteq responded)
        ~> (~Running \/ phase # "WAIT_DISCARDS" \/ ~(offered \cap connected \subseteq responded))
=============================================================================
