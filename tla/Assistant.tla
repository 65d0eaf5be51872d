------------------------------ MODULE Assistant ------------------------------
(***************************************************************************)
(* The chat of one user (chatbot_service.py and its page) in several       *)
(* browser sessions: the messages that a page shows, the conversation that *)
(* the provider's client keeps, and the requests that one prompt costs.    *)
(* The model may answer with text, ask for tools, whose results are sent   *)
(* in another request, or fail.  A script may be stopped while it streams. *)
(*                                                                         *)
(* The client of the provider is external: it repeats a request that the   *)
(* provider turns away for the moment, as often as retry_options allow, and*)
(* adds a request and its answer to the conversation once the answer has   *)
(* been streamed to its end.                                               *)
(***************************************************************************)
EXTENDS Naturals, Sequences, FiniteSets

CONSTANTS
  Chats,        \* browser sessions of the user
  MaxRounds,    \* _MAX_TOOL_ROUNDS
  SendAttempts, \* attempts of retry_options, the first one included
  ChatLimit,    \* max_requests of the chat's limiter
  LastMinute,   \* bound: windows of the limiter
  MaxMessages   \* bound: messages on a page

ASSUME ChatAssumption ==
  /\ MaxRounds \in Nat /\ SendAttempts \in Nat \ {0}
  /\ ChatLimit \in Nat /\ LastMinute \in Nat /\ MaxMessages \in Nat
  /\ IsFiniteSet(Chats)

VARIABLES
  minute,     \* the limiter's present window
  admitted,   \* prompts admitted in each window
  asked,      \* requests to the provider, by the window that admitted their prompt
  shown,      \* st.session_state.chat_messages: the role of each
  memory,     \* the client's conversation: none, ends in an answer, or in a call
  turn        \* what the script of each session is doing

chatVars == <<minute, admitted, asked, shown, memory, turn>>

Quiet == [pc |-> "quiet", rounds |-> 0, tries |-> 0, window |-> 0]

ChatInit ==
  /\ minute = 0
  /\ admitted = [k \in 0 .. LastMinute |-> 0] /\ asked = admitted
  /\ shown = [c \in Chats |-> <<>>]
  /\ memory = [c \in Chats |-> "absent"]
  /\ turn = [c \in Chats |-> Quiet]

NextWindow ==
  /\ minute < LastMinute
  /\ minute' = minute + 1
  /\ UNCHANGED <<admitted, asked, shown, memory, turn>>

Says(c, role) == shown' = [shown EXCEPT ![c] = Append(@, role)]

Phase(c, pc) == turn' = [turn EXCEPT ![c].pc = pc]

Room(c) == turn[c] = Quiet /\ Len(shown[c]) < MaxMessages

\* A prompt appears at once; then the service is created if the page has none.
Prompt(c) ==
  /\ Room(c)
  /\ Says(c, "user") /\ Phase(c, "prompted")
  /\ UNCHANGED <<minute, admitted, asked, memory>>

CreateClient(c) ==
  /\ turn[c].pc = "prompted" /\ memory[c] = "absent"
  /\ \/ memory' = [memory EXCEPT ![c] = "new"] /\ UNCHANGED turn
     \/ turn' = [turn EXCEPT ![c] = Quiet] /\ UNCHANGED memory    \* st.stop
  /\ UNCHANGED <<minute, admitted, asked, shown>>

Replies(c) == Says(c, "assistant") /\ turn' = [turn EXCEPT ![c] = Quiet]

\* Empty or too long, or a greeting: answered by the service itself.
AnswerItself(c) ==
  /\ turn[c].pc = "prompted" /\ memory[c] # "absent"
  /\ Replies(c)
  /\ UNCHANGED <<minute, admitted, asked, memory>>

-----------------------------------------------------------------------------
\* The limiter, shared by the user's sessions and processes, admits the prompt,
\* and the first request is sent; or a text says that the service is busy.
Admission(c) ==
  /\ turn[c].pc = "prompted" /\ memory[c] # "absent"
  /\ IF admitted[minute] < ChatLimit
     THEN /\ admitted' = [admitted EXCEPT ![minute] = @ + 1]
          /\ asked' = [asked EXCEPT ![minute] = @ + 1]
          /\ turn' = [turn EXCEPT ![c] =
                        [pc |-> "streaming", rounds |-> 0, tries |-> 1, window |-> minute]]
          /\ UNCHANGED shown
     ELSE Replies(c) /\ UNCHANGED <<admitted, asked>>
  /\ UNCHANGED <<minute, memory>>

\* The answer has been streamed: text, and the reply ends.
StreamEnds(c) ==
  /\ turn[c].pc = "streaming"
  /\ memory' = [memory EXCEPT ![c] = "answered"]
  /\ Replies(c)
  /\ UNCHANGED <<minute, admitted, asked>>

\* Mutant of MoreRounds: the rounds of a prompt are not counted.
MoreRoundsAlways(c) == turn[c].rounds >= 0

MoreRounds(c) == turn[c].rounds < MaxRounds

\* The answer asks for tools: they run, unless the prompt has had its rounds,
\* then the reply ends with what text there was, or none.
ToolsAsked(c) ==
  /\ turn[c].pc = "streaming"
  /\ memory' = [memory EXCEPT ![c] = "call"]
  /\ IF MoreRounds(c) THEN Phase(c, "tools") /\ UNCHANGED shown ELSE Replies(c)
  /\ UNCHANGED <<minute, admitted, asked>>

\* Another request to the provider for an admitted prompt.
Sends(c, rounds, tries) ==
  /\ turn' = [turn EXCEPT ![c].pc = "streaming", ![c].rounds = rounds, ![c].tries = tries]
  /\ asked' = [asked EXCEPT ![turn[c].window] = @ + 1]
  /\ UNCHANGED <<minute, admitted, shown, memory>>

\* Tools only read; one that fails or is unknown has an error for its result.
\* The results are sent, which is another request.
SendResults(c) == turn[c].pc = "tools" /\ Sends(c, turn[c].rounds + 1, 1)

\* The provider answers 408, 429 or a 5xx: the client waits and asks again.
SendAgain(c) ==
  /\ turn[c].pc = "streaming"
  /\ turn[c].tries < SendAttempts
  /\ Sends(c, turn[c].rounds, turn[c].tries + 1)

\* The provider fails, after some text or none, and the client gives up: a text
\* by the kind of failure.  The conversation stays as before the request.
ProviderFails(c) ==
  /\ turn[c].pc = "streaming"
  /\ Replies(c)
  /\ UNCHANGED <<minute, admitted, asked, memory>>

-----------------------------------------------------------------------------
\* Another widget, or Stop, ends the script: the prompt stays without a reply.
Interrupt(c) ==
  /\ turn[c] # Quiet
  /\ turn' = [turn EXCEPT ![c] = Quiet]
  /\ UNCHANGED <<minute, admitted, asked, shown, memory>>

\* Mutant of Cleared: the page is cleared and the service is kept.
ClearedPage(c) == shown' = [shown EXCEPT ![c] = <<>>] /\ UNCHANGED memory

Cleared(c) ==
  /\ shown' = [shown EXCEPT ![c] = <<>>]
  /\ memory' = [memory EXCEPT ![c] = "absent"]

\* Clear Chat, which also ends the script that is streaming.
ClearChat(c) ==
  /\ Cleared(c)
  /\ turn' = [turn EXCEPT ![c] = Quiet]
  /\ UNCHANGED <<minute, admitted, asked>>

ChatNext ==
  \/ NextWindow
  \/ \E c \in Chats :
       \/ Prompt(c) \/ CreateClient(c) \/ AnswerItself(c) \/ Admission(c)
       \/ StreamEnds(c) \/ ToolsAsked(c) \/ SendResults(c) \/ SendAgain(c)
       \/ ProviderFails(c) \/ Interrupt(c) \/ ClearChat(c)

-----------------------------------------------------------------------------
\* However prompts of several sessions, failures and interruptions meet: the
\* prompts of a window are within the limit, and with them the requests.  A
\* prompt sends once and once for each of its rounds, and a send costs at most
\* the client's attempts, however often the provider turns requests away.  What
\* the provider remembers has been said on the page that is shown; and every
\* reply has its prompt.
ChatIsBounded ==
  /\ \A k \in 0 .. LastMinute :
       /\ admitted[k] <= ChatLimit
       /\ asked[k] <= admitted[k] * ((1 + MaxRounds) * SendAttempts)
  /\ \A c \in Chats :
       /\ memory[c] \in {"answered", "call"} => shown[c] # <<>>
       /\ \A i \in 1 .. Len(shown[c]) :
            shown[c][i] = "assistant" => i > 1 /\ shown[c][i - 1] = "user"

\* The conversation is ready for the next prompt whenever the page is.  Not so
\* after the last round, or a stop or a failure between two rounds: it ends in a
\* call for tools that is never answered, until Clear Chat.
ConversationIsReady ==
  \A c \in Chats : turn[c] = Quiet => memory[c] # "call"
=============================================================================
