---------------------------- MODULE ChatSession ----------------------------
(***************************************************************************)
(* One chat session of claude_stdio_backend.ts: a child process kept       *)
(* between turns, its lines and its close event arriving as callbacks, a   *)
(* turn that takes its events from a queue, and the panel that sends.      *)
(*                                                                         *)
(* The child (external) answers the prompts on its stdin in order; claude  *)
(* keeps the conversation on disk, where --resume finds it.                *)
(***************************************************************************)
EXTENDS Naturals, Sequences, FiniteSets, Functions

CONSTANTS
  Turns,        \* bound: how many turns the panel sends
  ChatModel,    \* the models the picker offers
  Children,     \* bound: how many child processes are spawned
  Deaths,       \* bound: how many of them die by themselves
  PromptClose   \* TRUE: no turn is sent while an exited or reaped child has
                \* not yet raised its close event

ASSUME ChatAssumption ==
  /\ Turns \in Nat \ {0} /\ Children \in Nat \ {0} /\ Deaths \in Nat
  /\ ChatModel # {} /\ PromptClose \in BOOLEAN

VARIABLES
  chat,         \* the StdioSession object, n, the number of its last turn, and
                \* whether the server went down under it
  kids,         \* the child processes, in the order they were spawned
  heard,        \* heard[n]: the events turn n yielded to handleChat
  transcript,   \* the turns claude's session file holds
  deaths        \* how many children died by themselves

chatVars == <<chat, kids, heard, transcript, deaths>>

Event == [kind : {"text", "error", "done"}, turn : 0..Turns]
Line == [kind : {"init", "text", "result"}, turn : 0..Turns]
EventOf(kind, n) == [kind |-> kind, turn |-> n]

\* born (nothing done yet), alive, dead (the process is gone, Node has not
\* noticed), exited (exitCode is set), closed (the close event was raised).
Running == {"born", "alive"}
Kid == [state : Running \cup {"dead", "exited", "closed"}, killed : BOOLEAN,
        prompts : Seq(1..Turns), working : BOOLEAN, out : Seq(Line),
        recalls : SUBSET (1..Turns)]

ChatInit ==
  /\ chat \in [n : {0}, active : {FALSE}, done : {FALSE}, queue : {<<>>}, child : {0},
               id : {FALSE}, model : ChatModel, disposed : {FALSE}, down : {FALSE}]
  /\ kids = <<>>
  /\ heard = [n \in 1..Turns |-> <<>>]
  /\ transcript = {}
  /\ deaths = 0

-----------------------------------------------------------------------------
\* push: a stray event between turns is dropped.
Pushed(s, events) == IF s.active THEN [s EXCEPT !.queue = @ \o events] ELSE s

\* killChild: forget the child and signal it; it dies in its own time.
Killed(ks, c) == IF c = 0 THEN ks ELSE [ks EXCEPT ![c].killed = TRUE]

\* ensureChild keeps the child it has while Node believes it is running.
Reusable(c) == c # 0 /\ kids[c].state \in Running \cup {"dead"}

\* mutant: respawn without --resume
ResumedNever(id) == {}

\* --resume is passed when the session id is known.
Resumed(id) == IF id THEN transcript ELSE {}

Spawned(id) == [state |-> "born", killed |-> FALSE, prompts |-> <<>>, working |-> FALSE,
                out |-> <<>>, recalls |-> Resumed(id)]

\* No child is between its end and the event that reports it.
AllClosed == \A c \in DOMAIN kids :
  kids[c].state # "exited" /\ (kids[c].killed => kids[c].state = "closed")

\* handleChat: setModel, then sendTurn, in one synchronous stretch.  A prompt
\* written to a process that is gone is lost, or breaks its pipe: the error
\* event of the child's stdin has no handler, so it ends the server.
Send(m, breaks) ==
  LET retire == m # chat.model
      ks == IF retire THEN Killed(kids, chat.child) ELSE kids
      keep == ~retire /\ Reusable(chat.child)
      c == IF keep THEN chat.child ELSE Len(kids) + 1
      spawned == IF keep THEN ks ELSE Append(ks, Spawned(chat.id))
  IN /\ ~chat.active /\ ~chat.disposed /\ chat.n < Turns    \* the panel disables send while busy
     /\ PromptClose => AllClosed
     /\ c <= Children
     /\ breaks => spawned[c].state \notin Running
     /\ chat' = [chat EXCEPT !.n = @ + 1, !.active = TRUE, !.done = FALSE, !.queue = <<>>,
                             !.child = c, !.model = m, !.down = breaks]
     /\ kids' = IF spawned[c].state \in Running
                THEN [spawned EXCEPT ![c].prompts = Append(@, chat.n + 1)] ELSE spawned
     /\ UNCHANGED <<heard, transcript, deaths>>

\* The turn's loop yields the next event to handleChat.
Yields ==
  /\ chat.active /\ chat.queue # <<>>
  /\ heard' = [heard EXCEPT ![chat.n] = Append(@, Head(chat.queue))]
  /\ chat' = [chat EXCEPT !.queue = Tail(@)]
  /\ UNCHANGED <<kids, transcript, deaths>>

\* The loop ends when the turn is done and its queue is empty.
TurnReturns ==
  /\ chat.active /\ chat.done /\ chat.queue = <<>>
  /\ chat' = [chat EXCEPT !.active = FALSE]
  /\ UNCHANGED <<kids, heard, transcript, deaths>>

\* The idle timer, armed between turns.
Reaps ==
  /\ ~chat.active /\ chat.child # 0 /\ ~chat.disposed
  /\ kids' = Killed(kids, chat.child)
  /\ chat' = [chat EXCEPT !.child = 0]
  /\ UNCHANGED <<heard, transcript, deaths>>

\* The socket closed: the session is disposed, in a turn or between two.
Disposes ==
  /\ ~chat.disposed
  /\ chat' = [chat EXCEPT !.disposed = TRUE, !.child = 0]
  /\ kids' = Killed(kids, chat.child)
  /\ UNCHANGED <<heard, transcript, deaths>>

-----------------------------------------------------------------------------
\* The child (external): begins its next prompt, then ends it.
Works(c) ==
  /\ kids[c].state \in Running /\ kids[c].prompts # <<>> /\ ~kids[c].working
  /\ LET n == Head(kids[c].prompts)
     IN kids' = [kids EXCEPT ![c].state = "alive", ![c].working = TRUE,
                             ![c].out = @ \o <<EventOf("init", 0), EventOf("text", n)>>]
  /\ UNCHANGED <<chat, heard, transcript, deaths>>

Answers(c) ==
  /\ kids[c].state = "alive" /\ kids[c].working
  /\ LET n == Head(kids[c].prompts)
     IN /\ kids' = [kids EXCEPT ![c].working = FALSE, ![c].prompts = Tail(@),
                                ![c].out = Append(@, EventOf("result", n)),
                                ![c].recalls = @ \cup {n}]
        /\ transcript' = transcript \cup {n}
  /\ UNCHANGED <<chat, heard, deaths>>

Dies(c) ==
  /\ kids[c].state \in Running
  /\ kids[c].killed \/ deaths < Deaths
  /\ deaths' = IF kids[c].killed THEN deaths ELSE deaths + 1
  /\ kids' = [kids EXCEPT ![c].state = "dead"]
  /\ UNCHANGED <<chat, heard, transcript>>

ExitSeen(c) ==
  /\ kids[c].state = "dead"
  /\ kids' = [kids EXCEPT ![c].state = "exited"]
  /\ UNCHANGED <<chat, heard, transcript, deaths>>

-----------------------------------------------------------------------------
\* mutant: the text of a message is passed on after the result
OnLineLate(s, line) ==
  CASE line.kind = "init" -> [s EXCEPT !.id = TRUE]
    [] line.kind = "text" -> s
    [] line.kind = "result" ->
         [Pushed(s, <<EventOf("done", 0), EventOf("text", line.turn)>>) EXCEPT !.done = TRUE]

\* onLine: the session id, text for the turn, and the result that ends it.
OnLine(s, line) ==
  CASE line.kind = "init" -> [s EXCEPT !.id = TRUE]
    [] line.kind = "text" -> Pushed(s, <<line>>)
    [] line.kind = "result" -> [Pushed(s, <<EventOf("done", 0)>>) EXCEPT !.done = TRUE]

ReadsLine(c) ==
  /\ kids[c].state # "closed" /\ kids[c].out # <<>>
  /\ chat' = OnLine(chat, Head(kids[c].out))
  /\ kids' = [kids EXCEPT ![c].out = Tail(@)]
  /\ UNCHANGED <<heard, transcript, deaths>>

\* mutant: a child's death says nothing to the turn
EndedNever(s) == s

\* The close handler ends the turn that is active, whichever child closed.
EndedByClose(s) ==
  IF s.active /\ ~s.done
  THEN [Pushed(s, <<EventOf("error", 0), EventOf("done", 0)>>) EXCEPT !.done = TRUE]
  ELSE s

\* The close event comes when the child exited and its output is read.
Closes(c) ==
  /\ kids[c].state = "exited" /\ kids[c].out = <<>>
  /\ kids' = [kids EXCEPT ![c].state = "closed"]
  /\ chat' = EndedByClose(IF chat.child = c THEN [chat EXCEPT !.child = 0] ELSE chat)
  /\ UNCHANGED <<heard, transcript, deaths>>

\* The error event: the process could not be spawned.
SpawnFails(c) ==
  /\ kids[c].state = "born" /\ deaths < Deaths
  /\ deaths' = deaths + 1
  /\ kids' = [kids EXCEPT ![c].state = "closed"]
  /\ chat' = EndedByClose(IF chat.child = c THEN [chat EXCEPT !.child = 0] ELSE chat)
  /\ UNCHANGED <<heard, transcript>>

-----------------------------------------------------------------------------
ChatNext ==
  /\ ~chat.down
  /\ \/ \E m \in ChatModel, breaks \in BOOLEAN : Send(m, breaks)
     \/ Yields \/ TurnReturns \/ Reaps \/ Disposes
     \/ \E c \in DOMAIN kids : \/ Works(c) \/ Answers(c) \/ Dies(c) \/ ExitSeen(c)
                               \/ ReadsLine(c) \/ Closes(c) \/ SpawnFails(c)

ChatSpec == ChatInit /\ [][ChatNext]_chatVars

\* The event loop delivers what is pending; a child that runs answers or dies,
\* and one that was signalled or is gone is reported.  A child that hangs is left
\* out: nothing in sendTurn times out.
ChatServerStep ==
  /\ ~chat.down
  /\ \/ Yields \/ TurnReturns
     \/ \E c \in DOMAIN kids : \/ Works(c) \/ Answers(c) \/ ExitSeen(c) \/ ReadsLine(c)
                               \/ Closes(c) \/ (kids[c].killed /\ Dies(c))

ChatTypeOK ==
  /\ chat \in [n : 0..Turns, active : BOOLEAN, done : BOOLEAN, queue : Seq(Event),
               child : 0..Children, id : BOOLEAN, model : ChatModel, disposed : BOOLEAN,
               down : BOOLEAN]
  /\ kids \in Seq(Kid) /\ Len(kids) <= Children
  /\ heard \in [1..Turns -> Seq(Event)]
  /\ transcript \subseteq 1..Turns /\ deaths \in 0..Deaths

Said(n) == {heard[n][i] : i \in DOMAIN heard[n]}

\* A turn hears its own answer and nothing else: every text is the text of its
\* prompt, its done comes once and last, and a done without an error follows
\* that answer.  "marks each turn's completion with a `result` event".
HearsItsOwnAnswer ==
  \A n \in 1..chat.n :
    /\ \A e \in Said(n) : e.kind = "text" => e.turn = n
    /\ \A i \in DOMAIN heard[n] : heard[n][i].kind = "done" => i = Len(heard[n])
    /\ EventOf("done", 0) \in Said(n) =>
         EventOf("error", 0) \in Said(n) \/ EventOf("text", n) \in Said(n)
    /\ n < chat.n => EventOf("done", 0) \in Said(n)

\* The child that holds the prompt of the turn in progress is the session's
\* own, so nothing another child does can end that turn with an error while
\* its answer is still to come.  The comment of setModel: "the next turn gets
\* the new --model AND the memory".
TurnsGetTheirAnswer ==
  \A n \in 1..chat.n :
    EventOf("error", 0) \in Said(n) =>
      \A c \in DOMAIN kids : kids[c].state \in Running => n \notin Range(kids[c].prompts)

\* A child about to answer remembers every turn that was answered before it,
\* through reaps, deaths and model switches.
MemoryKept ==
  \A c \in DOMAIN kids :
    kids[c].state = "alive" /\ kids[c].working =>
      {n \in 1..chat.n : EventOf("done", 0) \in Said(n) /\ EventOf("error", 0) \notin Said(n)}
        \subseteq kids[c].recalls

\* A turn that began ends, however its child ends and when the session is
\* disposed under it: the panel is never left busy ("claude exited mid-turn").
\* A child that does not end and does not answer is beyond the fairness, and a
\* broken pipe takes the whole server down, not only the turn.
TurnsEnd == chat.active ~> ~chat.active \/ chat.down
=============================================================================
