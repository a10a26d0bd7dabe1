--------------------------- MODULE SupportTicket ---------------------------
(***************************************************************************)
(* The conversation of one support ticket with the AI (src/src/support.ts):*)
(* onTicketCreated asks for the debug consent, and every further round asks*)
(* the AI and writes what it made of the ticket as it was read before.  The*)
(* AI takes up to 30 s; ticketCall holds the calls that wait for it or for *)
(* another await.  The grants of the ticket are the subject of             *)
(* SupportAccess; no step here depends on them.                            *)
(*                                                                         *)
(* Abstractions.  The AI's answer solves the problem or does not, or the   *)
(* call of it fails.  Texts, the conversation's log, e-mails, pushes and   *)
(* the administrator's answers change nothing that is read again.          *)
(***************************************************************************)
EXTENDS Integers

CONSTANTS
    TicketCalls,      \* invocations in flight
    MaxRounds,        \* MAX_CONVERSATION_ROUNDS
    MaxRepeats,       \* bound: times the creation is delivered again
    MaxTicketDeaths   \* bound: calls that die or whose AI fails

ASSUME TicketAssumption ==
    MaxRounds \in Nat \ {0} /\ MaxRepeats \in Nat /\ MaxTicketDeaths \in Nat

VARIABLES
    ticket,           \* supportTickets/{id}
    greeting,         \* onTicketCreated: "no", "due", "asked" its question, "done"
    ticketCall,       \* calls in flight
    repeats, ticketDeaths,
    past              \* history of the conversation: "unsolved", "solved" by the AI,
                      \* "resumed" by a round that read the ticket after that

ticketVars == <<ticket, greeting, ticketCall, repeats, ticketDeaths, past>>

TicketIdle == [pc |-> "idle"]
Ended      == {"closed_by_ai", "escalated"}
Tickets == [status : {"none", "open", "awaiting_user_feedback"} \cup Ended,
            conversation : {"none", "awaiting_debug_consent", "debug_active", "analyzing",
                            "waiting_user_response", "closed", "escalated"},
            round : Nat, failures : Nat]
\* stale: the ticket was answered, decided or started again after the call read it.
TicketCallStates ==
    {TicketIdle}
    \cup [pc : {"reply", "skip", "activate", "refresh", "ask"},
          op : {"reply", "skip", "consent", "analyze"},
          round : Nat, failures : Nat, stale : BOOLEAN]

TicketTypeOK ==
    /\ ticket \in Tickets
    /\ greeting \in {"no", "due", "asked", "done"}
    /\ ticketCall \in [TicketCalls -> TicketCallStates]
    /\ repeats \in 0..MaxRepeats /\ ticketDeaths \in 0..MaxTicketDeaths
    /\ past \in {"unsolved", "solved", "resumed"}

TicketInit ==
    /\ ticket = [status |-> "none", conversation |-> "none", round |-> 0, failures |-> 0]
    /\ greeting = "no"
    /\ ticketCall = [p \in TicketCalls |-> TicketIdle]
    /\ repeats = 0 /\ ticketDeaths = 0
    /\ past = "unsolved"

Filed == ticket.status # "none"

TicketGo(p, state) == ticketCall' = [ticketCall EXCEPT ![p] = state]

\* A write of the status: the other calls have read an older ticket.
Rewritten(p, state) ==
    ticketCall' = [q \in TicketCalls |->
        IF q = p THEN state
        ELSE IF ticketCall[q] = TicketIdle THEN TicketIdle
        ELSE [ticketCall[q] EXCEPT !.stale = TRUE]]

AllStale == ticketCall' = [q \in TicketCalls |->
    IF ticketCall[q] = TicketIdle THEN TicketIdle ELSE [ticketCall[q] EXCEPT !.stale = TRUE]]

-----------------------------------------------------------------------------
(* Creation, and the trigger on it.                                        *)

CreateTicket ==
    /\ ~Filed
    /\ ticket' = [ticket EXCEPT !.status = "open"]
    /\ greeting' = "due"
    /\ UNCHANGED <<ticketCall, repeats, ticketDeaths, past>>

\* onTicketCreated starts the conversation, from the beginning.
AskDebugConsent ==
    /\ greeting = "due"
    /\ greeting' = "asked"
    /\ ticket' = [status |-> "awaiting_user_feedback", conversation |-> "awaiting_debug_consent",
                  round |-> 0, failures |-> 0]
    /\ AllStale
    /\ UNCHANGED <<repeats, ticketDeaths, past>>

GreetingDone ==
    /\ greeting = "asked"
    /\ greeting' = "done"
    /\ UNCHANGED <<ticket, ticketCall, repeats, ticketDeaths, past>>

\* Its update, the log entry or a read fails.
GreetingFails ==
    /\ greeting \in {"due", "asked"}
    /\ greeting' = "done"
    /\ ticket' = [ticket EXCEPT !.status = "escalated", !.conversation = "escalated"]
    /\ AllStale
    /\ UNCHANGED <<repeats, ticketDeaths, past>>

\* Firestore delivers the creation again.
GreetAgain ==
    /\ greeting = "done" /\ repeats < MaxRepeats
    /\ repeats' = repeats + 1
    /\ greeting' = "due"
    /\ UNCHANGED <<ticket, ticketCall, ticketDeaths, past>>

-----------------------------------------------------------------------------
(* The rounds.                                                             *)

\* A round works with the ticket as it was read.
Read(pc, op) == [pc |-> pc, op |-> op, round |-> ticket.round, failures |-> ticket.failures,
                 stale |-> FALSE]

\* The call reads the ticket again; what happened since it began stays noted.
ReadAgain(p) == [ticketCall[p] EXCEPT !.pc = "ask", !.round = ticket.round,
                                      !.failures = ticket.failures]

ReadSolved == past' = IF past = "solved" THEN "resumed" ELSE past

\* analyzeWithDebugData, by the parent or by support, whatever the status.  The
\* code bounds the rounds of replies only; the model bounds these, too.
AnalyzeWithDebugData(p) ==
    /\ ticketCall[p] = TicketIdle /\ Filed
    /\ ticket.round <= MaxRounds
    /\ TicketGo(p, Read("ask", "analyze"))
    /\ ReadSolved
    /\ UNCHANGED <<ticket, greeting, repeats, ticketDeaths>>

AwaitsConsent == ticket.conversation = "awaiting_debug_consent"

\* grantDebugAccess: the check, the update, and the ticket read again.
ConsentToDebug(p) ==
    /\ ticketCall[p] = TicketIdle
    /\ AwaitsConsent
    /\ TicketGo(p, Read("activate", "consent"))
    /\ UNCHANGED <<ticket, greeting, repeats, ticketDeaths, past>>

ActivateDebug(p) ==
    /\ ticketCall[p].pc = "activate"
    /\ ticket' = [ticket EXCEPT !.conversation = "debug_active"]
    /\ TicketGo(p, [ticketCall[p] EXCEPT !.pc = "refresh"])
    /\ UNCHANGED <<greeting, repeats, ticketDeaths, past>>

AnalyzeAfterConsent(p) ==
    /\ ticketCall[p].pc = "refresh"
    /\ TicketGo(p, ReadAgain(p))
    /\ ReadSolved
    /\ UNCHANGED <<ticket, greeting, repeats, ticketDeaths>>

\* skipDebugMode: the check and the update; its round uses the ticket read first.
DeclineDebug(p) ==
    /\ ticketCall[p] = TicketIdle
    /\ AwaitsConsent
    /\ TicketGo(p, Read("skip", "skip"))
    /\ ReadSolved
    /\ UNCHANGED <<ticket, greeting, repeats, ticketDeaths>>

SkipDebugMode(p) ==
    /\ ticketCall[p].pc = "skip"
    /\ ticket' = [ticket EXCEPT !.conversation = "analyzing"]
    /\ TicketGo(p, [ticketCall[p] EXCEPT !.pc = "ask"])
    /\ UNCHANGED <<greeting, repeats, ticketDeaths, past>>

\* Variant: a closed ticket takes further replies.
CheckReplyClosed(p) ==
    /\ ticketCall[p] = TicketIdle /\ Filed
    /\ ticket.status # "escalated" /\ ticket.round < MaxRounds
    /\ TicketGo(p, Read("reply", "reply"))
    /\ UNCHANGED <<ticket, greeting, repeats, ticketDeaths, past>>

\* processUserReplyMessage: the checks, the update, and the ticket read again.
CheckReply(p) ==
    /\ ticketCall[p] = TicketIdle /\ Filed
    /\ ticket.status \notin Ended /\ ticket.round < MaxRounds
    /\ TicketGo(p, Read("reply", "reply"))
    /\ UNCHANGED <<ticket, greeting, repeats, ticketDeaths, past>>

ProcessUserReply(p) ==
    /\ ticketCall[p].pc = "reply"
    /\ ticket' = [ticket EXCEPT !.conversation = "analyzing"]
    /\ TicketGo(p, ReadAgain(p))
    /\ ReadSolved
    /\ UNCHANGED <<greeting, repeats, ticketDeaths>>

\* Variant: a failed round is not counted as a failure.
AnswerUncounted(round, failures, solved) ==
    [status |-> IF solved THEN "closed_by_ai"
                ELSE IF round + 1 >= MaxRounds /\ failures >= MaxRounds THEN "escalated"
                ELSE "awaiting_user_feedback",
     round |-> round + 1, failures |-> failures]

\* What a round makes of the ticket it has read.
Answer(round, failures, solved) ==
    LET failed == IF solved THEN failures ELSE failures + 1
    IN  [status |-> IF solved THEN "closed_by_ai"
                    ELSE IF round + 1 >= MaxRounds /\ failed >= MaxRounds THEN "escalated"
                    ELSE "awaiting_user_feedback",
         round |-> round + 1, failures |-> failed]

\* Variant: the ticket's status goes to both fields.
ConversationOfSame(status) == status

ConversationOf(status) ==
    CASE status = "closed_by_ai" -> "closed"
      [] status = "escalated" -> "escalated"
      [] OTHER -> "waiting_user_response"

RunAiAnalysisRound(p, solved) ==
    LET a == Answer(ticketCall[p].round, ticketCall[p].failures, solved) IN
    /\ ticketCall[p].pc = "ask"
    /\ ticket' = [status |-> a.status, conversation |-> ConversationOf(a.status),
                  round |-> a.round, failures |-> a.failures]
    /\ Rewritten(p, TicketIdle)
    /\ past' = IF solved /\ past = "unsolved" THEN "solved" ELSE past
    /\ UNCHANGED <<greeting, repeats, ticketDeaths>>

ProvideSolutionFeedback(accepted) ==
    /\ Filed
    /\ ticket' = [ticket EXCEPT !.status = IF accepted THEN "closed_by_ai" ELSE "escalated"]
    /\ AllStale
    /\ UNCHANGED <<greeting, repeats, ticketDeaths, past>>

\* A call dies, or the AI does not answer and nothing is written.
TicketCallDies(p) ==
    /\ ticketCall[p] # TicketIdle
    /\ ticketDeaths < MaxTicketDeaths
    /\ ticketDeaths' = ticketDeaths + 1
    /\ TicketGo(p, TicketIdle)
    /\ UNCHANGED <<ticket, greeting, repeats, past>>

-----------------------------------------------------------------------------
TicketNext ==
    \/ CreateTicket \/ AskDebugConsent \/ GreetingDone \/ GreetingFails \/ GreetAgain
    \/ \E p \in TicketCalls :
        \/ AnalyzeWithDebugData(p)
        \/ ConsentToDebug(p) \/ ActivateDebug(p) \/ AnalyzeAfterConsent(p)
        \/ DeclineDebug(p) \/ SkipDebugMode(p)
        \/ CheckReply(p) \/ ProcessUserReply(p)
        \/ \E solved \in BOOLEAN : RunAiAnalysisRound(p, solved)
        \/ TicketCallDies(p)
    \/ \E accepted \in BOOLEAN : ProvideSolutionFeedback(accepted)

TicketSpec == TicketInit /\ [][TicketNext]_ticketVars

-----------------------------------------------------------------------------
\* A parent who is refused further replies because the rounds are used up has
\* a ticket that is closed or escalated, as the refusal says ("Ticket is
\* escalated."), unless a round was run on a ticket the AI had solved before:
\* analyzeWithDebugData and a stale reply can do that, and leave the parent
\* with an open ticket that nobody answers.
RoundsEndTheTicket ==
    (ticket.round >= MaxRounds /\ ticket.status \notin Ended) => past = "resumed"

\* A reply takes a closed or escalated ticket back into the conversation only
\* if the ticket was closed or escalated while the reply was being handled.
ReplyReopensOnlyWhenOvertaken ==
    [][\A p \in TicketCalls :
         (/\ ticket.status \in Ended /\ ticket'.status = "awaiting_user_feedback"
          /\ ticketCall[p].pc = "ask" /\ ticketCall'[p] = TicketIdle
          /\ ticketCall[p].op = "reply") => ticketCall[p].stale]_ticketVars
=============================================================================
