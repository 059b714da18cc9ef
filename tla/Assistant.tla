----------------------------- MODULE Assistant -----------------------------
(***************************************************************************)
(* The AI assistant: routes/ai.ts, services/ai-tools.ts, llm-settings.ts,  *)
(* llm.ts and the drawer of the panel (AiChat.tsx).                        *)
(*                                                                         *)
(* A message becomes one request that awaits many things: the settings,    *)
(* the key, the conversation, a model that answers after seconds, the      *)
(* tools it calls.  Meanwhile the user can save other settings, delete     *)
(* the conversation, open another one or press Run on a card.  Settings    *)
(* are saved row by row, in several writes.                                *)
(*                                                                         *)
(* A key is the URL it was entered for.  Of the rows of a conversation     *)
(* only their number is kept, and of a tool whether it reads or writes.    *)
(***************************************************************************)
EXTENDS Naturals

CONSTANTS
  Drawers,      \* open copies of the panel
  Convs,        \* conversations, numbered in the order they are made
  Urls,         \* base URLs of a provider
  Saves,        \* POST /settings requests
  Clicks,       \* presses of Run: POST /confirm-action requests
  HistoryLimit, \* how many rows go to the model (30 in the code)
  MaxTurns,     \* bounds the messages sent
  MaxRestarts   \* bounds the deaths of the backend

VARIABLES
  mode, url, key, \* the rows llm.autonomy, llm.base_url and llm.api_key_encrypted
  save,           \* each POST /settings
  there, made,    \* the conversations there are, and how many were made
  rows,           \* how many ai_messages each has
  chat,           \* the message each drawer has sent and not got an answer to
  shown,          \* conversationId of each drawer
  action,         \* ai_pending_actions: the write of a turn is proposed, older than five minutes or not there
  click,          \* each press of Run
  ran,            \* history: how often each confirmed action ran
  turns, restarts,
  torn,           \* history: two saves overlapped, or a death left one half written
  met,            \* history: tokens two presses had read before either deleted it
  surprise        \* history: a write ran at once although the user had ruled that out

settings == <<mode, url, key, save, torn>>
vars == <<settings, there, made, rows, chat, shown, action, click, ran, turns, restarts, met, surprise>>

Modes == {"off", "suggest_only", "autonomous"}
NoKey == "none"
Tokens == 1..MaxTurns
Steps == {"settings", "key", "conv", "user", "recall", "ask", "answer", "calls", "dispatch", "results",
          "follow", "close", "touch"}
Idle == [step |-> "idle"]
Unsaved == [step |-> "idle"]
Saved == [step |-> "done"]
Saving(s) == save[s] \notin {Unsaved, Saved}
Unpressed == [step |-> "idle", token |-> 0]

\* A request of POST /chat: what it was sent with, what it has read, and which turn it is.
Chats == [step : Steps, conv : 0..Convs, fresh : BOOLEAN, mode : Modes, turn : Tokens, sees : BOOLEAN, tools : SUBSET {"read", "write"},
          calm : BOOLEAN]

TypeOK ==
  /\ mode \in Modes /\ url \in Urls /\ key \in Urls \union {NoKey}
  /\ \A s \in Saves : save[s] \in {Unsaved, Saved} \/
       save[s] \in [step : {"check", "url", "mode", "key"}, url : Urls, mode : Modes, typed : BOOLEAN]
  /\ there \subseteq 1..Convs /\ made \in 0..Convs
  /\ rows \in [1..Convs -> Nat]
  /\ chat \in [Drawers -> {Idle} \union Chats] /\ shown \in [Drawers -> 0..Convs]
  /\ action \in [Tokens -> {"none", "new", "old"}]
  /\ click \in [Clicks -> [step : {"idle", "find", "delete", "run", "done"}, token : {0} \union Tokens]]
  /\ ran \in [Tokens -> Nat] /\ met \subseteq Tokens
  /\ turns \in 0..MaxTurns /\ restarts \in 0..MaxRestarts
  /\ torn \in BOOLEAN /\ surprise \in BOOLEAN

Init ==
  /\ mode = "suggest_only" /\ url \in Urls /\ key \in {url, NoKey}
  /\ save = [s \in Saves |-> Unsaved]
  /\ there = {} /\ made = 0 /\ rows = [c \in 1..Convs |-> 0]
  /\ chat = [d \in Drawers |-> Idle] /\ shown = [d \in Drawers |-> 0]
  /\ action = [t \in Tokens |-> "none"]
  /\ click = [k \in Clicks |-> Unpressed]
  /\ ran = [t \in Tokens |-> 0] /\ met = {}
  /\ turns = 0 /\ restarts = 0 /\ torn = FALSE /\ surprise = FALSE

-----------------------------------------------------------------------------
(* The settings *)

others == <<there, made, rows, shown, action, click, ran, turns, restarts, met, surprise>>

\* onSave (AiSettingsPage.tsx): the form sends everything, the key only when one was
\* typed, for the URL that stands next to it.
SaveSettings(s) ==
  /\ save[s] = Unsaved
  /\ \E u \in Urls, m \in Modes, typed \in BOOLEAN :
       save' = [save EXCEPT ![s] = [step |-> "check", url |-> u, mode |-> m, typed |-> typed]]
  /\ torn' = (torn \/ \E o \in Saves : Saving(o))
  /\ UNCHANGED <<mode, url, key, chat, others>>

\* "Enter the API key again when changing the base URL."
CheckSave(s) ==
  /\ save[s].step = "check"
  /\ save' = IF save[s].url # url /\ ~save[s].typed
               THEN [save EXCEPT ![s] = Saved]
               ELSE [save EXCEPT ![s].step = "url"]
  /\ UNCHANGED <<mode, url, key, torn, chat, others>>

\* updateLlmSettings: the rows one after the other, the key last.
WriteUrl(s) ==
  /\ save[s].step = "url"
  /\ url' = save[s].url
  /\ save' = [save EXCEPT ![s].step = "mode"]
  /\ UNCHANGED <<mode, key, torn, chat, others>>

WriteMode(s) ==
  /\ save[s].step = "mode"
  /\ mode' = save[s].mode
  /\ chat' = [d \in Drawers |-> IF chat[d] # Idle /\ mode' = "autonomous"
                                  THEN [chat[d] EXCEPT !.calm = FALSE] ELSE chat[d]]
  /\ save' = [save EXCEPT ![s].step = "key"]
  /\ UNCHANGED <<url, key, torn, others>>

WriteKey(s) ==
  /\ save[s].step = "key"
  /\ key' = IF save[s].typed THEN save[s].url ELSE key
  /\ save' = [save EXCEPT ![s] = Saved]
  /\ UNCHANGED <<mode, url, torn, chat, others>>

-----------------------------------------------------------------------------
(* A message *)

Go(d, step) == chat' = [chat EXCEPT ![d].step = step]

\* The response, an error or not: the drawer takes input again.
Respond(d) == chat' = [chat EXCEPT ![d] = Idle]

\* onSend: the input is locked until the answer is there.
Send(d) ==
  /\ chat[d] = Idle /\ turns < MaxTurns
  /\ turns' = turns + 1
  /\ chat' = [chat EXCEPT ![d] =
       [step |-> "settings", conv |-> shown[d], fresh |-> shown[d] = 0, mode |-> "off", turn |-> turns', sees |-> FALSE, tools |-> {},
        calm |-> mode # "autonomous" /\ \A s \in Saves : ~Saving(s)]]
  /\ UNCHANGED <<settings, there, made, rows, shown, action, click, ran, restarts, met, surprise>>

\* getLlmSettings: 503 when the assistant is off, 400 when it is not configured.
ReadSettings(d) ==
  /\ chat[d].step = "settings"
  /\ IF mode = "off" \/ key = NoKey THEN Respond(d)
       ELSE chat' = [chat EXCEPT ![d].step = "key", ![d].mode = mode]
  /\ UNCHANGED <<settings, others>>

\* getLlmApiKey reads the rows again.
ReadKey(d) ==
  /\ chat[d].step = "key"
  /\ IF key = NoKey THEN Respond(d) ELSE Go(d, "conv")
  /\ UNCHANGED <<settings, others>>

\* A new conversation for a drawer that shows none, else the one it shows, or 404.
FindConversation(d) ==
  /\ chat[d].step = "conv"
  /\ IF chat[d].conv = 0
       THEN /\ made < Convs
            /\ made' = made + 1 /\ there' = there \union {made'}
            /\ chat' = [chat EXCEPT ![d].step = "user", ![d].conv = made']
       ELSE /\ IF chat[d].conv \in there THEN Go(d, "user") ELSE Respond(d)
            /\ UNCHANGED <<there, made>>
  /\ UNCHANGED <<settings, rows, shown, action, click, ran, turns, restarts, met, surprise>>

\* Inserts rows, or fails on the foreign key when the conversation has gone.
Insert(d, new) ==
  rows' = IF chat[d].conv \in there THEN [rows EXCEPT ![chat[d].conv] = @ + new] ELSE rows

data == <<settings, there, made, shown, action, click, ran, turns, restarts, met, surprise>>

\* Each insert of the handler, the rows it adds and the step after it.
Store(d, step, new, next) ==
  /\ chat[d].step = step
  /\ Insert(d, new)
  /\ IF chat[d].conv \in there THEN Go(d, next) ELSE Respond(d)
  /\ UNCHANGED data

StoreMessage(d) == Store(d, "user", 1, "recall")

\* The history for the model: ordered by id, ascending, and cut at the limit.
Recall(d) ==
  /\ chat[d].step = "recall"
  /\ chat' = [chat EXCEPT ![d].step = "ask",
               ![d].sees = chat[d].conv \in there /\ rows[chat[d].conv] <= HistoryLimit]
  /\ UNCHANGED <<rows, data>>

\* The model answers, calls tools or fails (502).
Ask(d) ==
  /\ chat[d].step = "ask"
  /\ \/ Respond(d)
     \/ Go(d, "answer")
     \/ \E tools \in (SUBSET {"read", "write"}) \ {{}} :
          chat' = [chat EXCEPT ![d].step = "calls", ![d].tools = tools]
  /\ UNCHANGED <<rows, data>>

StoreAnswer(d) == Store(d, "answer", 1, "touch")
StoreCalls(d) == Store(d, "calls", 1, "dispatch")

\* dispatchTool, for the calls of one answer: reads and, when the mode read at the start
\* says so, writes run at once (execTool gives an error back as a result); a write in
\* suggest_only leaves a pending action.
Dispatch(d) ==
  /\ chat[d].step = "dispatch" /\ Go(d, "results")
  /\ IF "write" \notin chat[d].tools THEN UNCHANGED <<action, surprise>>
     ELSE IF chat[d].mode = "suggest_only"
       THEN action' = [action EXCEPT ![chat[d].turn] = "new"] /\ UNCHANGED surprise
       ELSE surprise' = (surprise \/ chat[d].calm) /\ UNCHANGED action
  /\ UNCHANGED <<settings, there, made, rows, shown, click, ran, turns, restarts, met>>

StoreResults(d) ==
  Store(d, "results", IF chat[d].tools = {"read", "write"} THEN 2 ELSE 1, "follow")

\* The second round, without tools.  Whatever fails in it is logged and the first
\* answer is sent.
FollowUp(d) ==
  /\ chat[d].step = "follow"
  /\ Go(d, "touch") \/ Go(d, "close")
  /\ UNCHANGED <<rows, data>>

StoreFollowUp(d) ==
  /\ chat[d].step = "close"
  /\ Insert(d, 1) /\ Go(d, "touch")
  /\ UNCHANGED data

\* The answer: a drawer that showed no conversation when it sent shows this one now.
Answer(d) ==
  /\ chat[d].step = "touch"
  /\ shown' = IF chat[d].fresh THEN [shown EXCEPT ![d] = chat[d].conv] ELSE shown
  /\ Respond(d)
  /\ UNCHANGED <<settings, there, made, rows, action, click, ran, turns, restarts, met, surprise>>

Handle(d) ==
  \/ ReadSettings(d) \/ ReadKey(d) \/ FindConversation(d) \/ StoreMessage(d) \/ Recall(d) \/ Ask(d)
  \/ StoreAnswer(d) \/ StoreCalls(d) \/ Dispatch(d) \/ StoreResults(d) \/ FollowUp(d)
  \/ StoreFollowUp(d) \/ Answer(d)

-----------------------------------------------------------------------------
(* What else the user does *)

\* The picker and "new conversation".
Open(d) ==
  /\ \E c \in {0} \union there : c # shown[d] /\ shown' = [shown EXCEPT ![d] = c]
  /\ UNCHANGED <<settings, there, made, rows, chat, action, click, ran, turns, restarts, met, surprise>>

\* DELETE /conversations/:id takes the messages along (ON DELETE CASCADE); pending
\* actions stay.
Delete(d) ==
  /\ shown[d] \in there
  /\ there' = there \ {shown[d]}
  /\ rows' = [rows EXCEPT ![shown[d]] = 0]
  /\ shown' = [shown EXCEPT ![d] = 0]
  /\ UNCHANGED <<settings, made, chat, action, click, ran, turns, restarts, met, surprise>>

\* Run on a card: the button stays on it, pressed or not.
Press(k) ==
  /\ click[k].step \in {"idle", "done"}
  /\ \E t \in 1..turns : (action[t] # "none" \/ ran[t] > 0)
       /\ click' = [click EXCEPT ![k] = [step |-> "find", token |-> t]]
  /\ UNCHANGED <<settings, there, made, rows, chat, shown, action, ran, turns, restarts, met, surprise>>

\* confirmAndExecAction: the row, unless it is gone or has expired.
FindAction(k) ==
  LET t == click[k].token
  IN /\ click[k].step = "find"
     /\ click' = [click EXCEPT ![k].step = IF action[t] = "new" THEN "delete" ELSE "done"]
     /\ action' = IF action[t] = "old" THEN [action EXCEPT ![t] = "none"] ELSE action
     /\ met' = IF \E o \in Clicks \ {k} : click[o] = [step |-> "delete", token |-> t]
                 THEN met \union {t} ELSE met
     /\ UNCHANGED <<settings, there, made, rows, chat, shown, ran, turns, restarts, surprise>>

\* Mutant of DeleteAction: the row is left to expire
LeaveAction(k) ==
  /\ click[k].step = "delete"
  /\ click' = [click EXCEPT ![k].step = "run"]
  /\ UNCHANGED <<settings, there, made, rows, chat, shown, action, ran, turns, restarts, met, surprise>>

\* The row is deleted before the tool runs; how many rows that took is not looked at.
DeleteAction(k) ==
  /\ click[k].step = "delete"
  /\ click' = [click EXCEPT ![k].step = "run"]
  /\ action' = [action EXCEPT ![click[k].token] = "none"]
  /\ UNCHANGED <<settings, there, made, rows, chat, shown, ran, turns, restarts, met, surprise>>

\* execTool, whatever the mode is by now.
RunAction(k) ==
  /\ click[k].step = "run"
  /\ click' = [click EXCEPT ![k].step = "done"]
  /\ ran' = [ran EXCEPT ![click[k].token] = @ + 1]
  /\ UNCHANGED <<settings, there, made, rows, chat, shown, action, turns, restarts, met, surprise>>

FiveMinutes ==
  /\ \E t \in Tokens : action[t] = "new"
  /\ action' = [t \in Tokens |-> IF action[t] = "new" THEN "old" ELSE action[t]]
  /\ UNCHANGED <<settings, there, made, rows, chat, shown, click, ran, turns, restarts, met, surprise>>

\* The backend dies and starts again: every request under way ends in an error.
Restart ==
  /\ restarts < MaxRestarts /\ restarts' = restarts + 1
  /\ torn' = (torn \/ \E s \in Saves : save[s].step \in {"mode", "key"})
  /\ save' = [s \in Saves |-> IF Saving(s) THEN Saved ELSE save[s]]
  /\ chat' = [d \in Drawers |-> Idle]
  /\ click' = [k \in Clicks |-> IF click[k].step = "idle" THEN Unpressed
                                ELSE [click[k] EXCEPT !.step = "done"]]
  /\ UNCHANGED <<mode, url, key, there, made, rows, shown, action, ran, turns, met, surprise>>

Next ==
  \/ \E s \in Saves : SaveSettings(s) \/ CheckSave(s) \/ WriteUrl(s) \/ WriteMode(s) \/ WriteKey(s)
  \/ \E d \in Drawers : Send(d) \/ Handle(d) \/ Open(d) \/ Delete(d)
  \/ \E k \in Clicks : Press(k) \/ FindAction(k) \/ DeleteAction(k) \/ RunAction(k)
  \/ FiveMinutes \/ Restart

\* The handler is never held up: the database answers, and the SDK's own time limit
\* ends a call to a model that does not.
Fairness == \A d \in Drawers : WF_vars(Handle(d))

Spec == Init /\ [][Next]_vars /\ Fairness

-----------------------------------------------------------------------------
(* Properties *)

\* A proposed write runs at most once, however often Run is pressed, unless two presses
\* had both read its row before either deleted it.
ConfirmedOnce == \A t \in Tokens \ met : ran[t] <= 1

\* The stored key is the one entered for the stored URL whenever no save is under way,
\* unless saves overlapped or a death left one half written.
KeyForItsUrl == (\A s \in Saves : ~Saving(s)) /\ ~torn => key \in {url, NoKey}

\* What the assistant does is what the user allowed: proposed writes run once, no write
\* runs unasked for a message sent after autonomous mode was ruled out, and the key
\* stays with its URL.
AsAllowed == ConfirmedOnce /\ ~surprise /\ KeyForItsUrl

\* A message that has no answer yet: it gets one (~> in MCBrowser), even when its
\* conversation is deleted meanwhile.
Waiting == \E d \in Drawers : chat[d] # Idle

=============================================================================
