-------------------------------- MODULE Repl --------------------------------
(***************************************************************************)
(* src/cli/repl.ts: a session on the command line; with the MCP clients of *)
(* src/adapters/mcp/ai-sdk-mcp.adapter.ts that it opens, and the file      *)
(* ~/.gaussflowrc of src/cli/config.ts that every process of the user      *)
(* reads, edits and writes back.  A session does one thing at a time and   *)
(* awaits it; sessions, and commands that set a key, meet in the file.     *)
(***************************************************************************)
EXTENDS Integers, Sequences, FiniteSets, SequencesExt

CONSTANTS
  Shells,        \* processes of the user: sessions, or commands that end
  Providers, Models, Default,   \* Default: the model a provider begins with
  Env,           \* the providers with a key in the environment
  Servers,       \* MCP servers
  MaxHistory,    \* MAX_HISTORY
  MaxSaid        \* bounds what a session says

VARIABLES
  rc,         \* the file: its keys and servers, and whether it is whole
  saving,     \* what each process is about to write, and whether it truncated
  at,         \* where each process is
  todo,       \* the servers still to connect, or to close
  settings,   \* provider, model and key that are shown, and the client's
  history,    \* the conversation
  clients,    \* the open MCP clients
  said,       \* ghost: all that was said since the history was cleared
  keys,       \* ghost: the keys that were set
  clash       \* ghost: two saves overlapped, one was cut short in the middle
              \* or began from a file that was there and was not read

vars == <<rc, saving, at, todo, settings, history, clients, said, keys, clash>>
replVars == <<at, todo, settings, history, clients, said>>
fileVars == <<rc, saving, keys, clash>>

NoFile == [keys |-> {}, servers |-> <<>>]
NotSaving == [step |-> "none", text |-> NoFile]

Init ==
  /\ rc = [whole |-> TRUE, text |-> NoFile]
  /\ saving = [p \in Shells |-> NotSaving]
  /\ at = [p \in Shells |-> "off"]
  /\ todo = [p \in Shells |-> {}]
  /\ settings = [p \in Shells |-> [provider |-> "none"]]
  /\ history = [p \in Shells |-> <<>>] /\ said = [p \in Shells |-> <<>>]
  /\ clients = [p \in Shells |-> {}]
  /\ keys = {} /\ clash = FALSE

-----------------------------------------------------------------------------
(* config.ts.  What cannot be parsed, or not be read, is no configuration: *)
(* what loadConfig() may return.                                           *)
LoadConfig == {NoFile} \cup IF rc.whole THEN {rc.text} ELSE {}

KeyOf(provider) == \E config \in LoadConfig : provider \in config.keys \cup Env

AnySaving == \E p \in Shells : saving[p].step # "none"

(* A save: load, edit, truncate, write; other processes in between.        *)
Save(p, config, text) ==
  /\ saving' = [saving EXCEPT ![p] = [step |-> "edited", text |-> text]]
  /\ clash' = (clash \/ AnySaving \/ config # rc.text)
  /\ UNCHANGED <<rc, keys>>

Truncate(p) ==
  /\ saving[p].step = "edited"
  /\ rc' = [rc EXCEPT !.whole = FALSE]
  /\ saving' = [saving EXCEPT ![p].step = "truncated"]
  /\ UNCHANGED <<replVars, keys, clash>>

(* What is behind the save: the command is over; /mcp add catches what was *)
(* thrown, /mcp remove does not, which ends the session.                   *)
Goes(p, place) == at' = [at EXCEPT ![p] = place]

Closing(p) ==
  /\ Goes(p, "closing")
  /\ todo' = [todo EXCEPT ![p] = clients[p]]

Saved(p, failed) ==
  /\ saving' = [saving EXCEPT ![p] = NotSaving]
  /\ \/ at[p] = "command" /\ Goes(p, "off") /\ UNCHANGED todo
     \/ (at[p] = "adding" \/ (at[p] = "removing" /\ ~failed)) /\ Goes(p, "prompt") /\ UNCHANGED todo
     \/ at[p] = "removing" /\ failed /\ Closing(p)
  /\ UNCHANGED <<settings, history, clients, said>>

(* writeFileSync() has written; chmodSync() may fail still.                *)
Write(p) ==
  /\ saving[p].step = "truncated"
  /\ rc' = [whole |-> TRUE, text |-> saving[p].text]
  /\ keys' = keys \cup (saving[p].text.keys \ rc.text.keys)
  /\ \E failed \in BOOLEAN : Saved(p, failed)
  /\ UNCHANGED clash

(* It cannot open the file, or not write what it emptied.                  *)
WriteFails(p) ==
  /\ saving[p].step # "none"
  /\ clash' = (clash \/ saving[p].step = "truncated")
  /\ Saved(p, TRUE)
  /\ UNCHANGED <<rc, keys>>

(* addMcpServer() and removeMcpServer() on what was loaded, where a server *)
(* is once at most.                                                        *)
Others(list, s) ==
  IF s \in ToSet(list) THEN RemoveAt(list, CHOOSE i \in DOMAIN list : list[i] = s) ELSE list

WithServer(text, s) == [text EXCEPT !.servers = Append(Others(@, s), s)]

Without(text, s) == [text EXCEPT !.servers = Others(@, s)]

(* gaussflow config set, in a process of its own.                          *)
SetKey(p, v) ==
  /\ at[p] = "off"
  /\ at' = [at EXCEPT ![p] = "command"]
  /\ \E config \in LoadConfig : Save(p, config, [config EXCEPT !.keys = @ \cup {v}])
  /\ UNCHANGED <<todo, settings, history, clients, said>>

-----------------------------------------------------------------------------
(* startRepl(): the saved servers are connected one after the other, those *)
(* that fail are passed over.  Whose turn it is is left open, here and     *)
(* where the clients are closed.                                           *)
StartRepl(p, v) ==
  /\ at[p] = "off" /\ KeyOf(v)
  /\ Goes(p, "connecting")
  /\ \E config \in LoadConfig : todo' = [todo EXCEPT ![p] = ToSet(config.servers)]
  /\ settings' = [settings EXCEPT ![p] =
                    [provider |-> v, model |-> Default[v], key |-> v,
                     client |-> <<v, v, Default[v]>>]]
  /\ UNCHANGED <<history, clients, said, fileVars>>

(* connect(): a client that is there is kept.                              *)
Connected(p, s) == clients' = [clients EXCEPT ![p] = @ \cup {s}]

ConnectSaved(p) ==
  /\ at[p] = "connecting"
  /\ \/ /\ todo[p] = {}
        /\ Goes(p, "prompt")
        /\ UNCHANGED <<todo, clients>>
     \/ \E s \in todo[p] :
          /\ todo' = [todo EXCEPT ![p] = @ \ {s}]
          /\ Connected(p, s) \/ UNCHANGED clients
          /\ UNCHANGED at
  /\ UNCHANGED <<settings, history, said, fileVars>>

AtPrompt(p) == at[p] = "prompt" /\ saving[p].step = "none"

(* /model: createModel() may reject, and nothing has changed then.         *)
WithModel(x, m) ==
  [provider |-> x.provider, model |-> m, key |-> x.key, client |-> <<x.provider, x.key, m>>]

SwitchModel(p, m) ==
  /\ AtPrompt(p)
  /\ settings' = [settings EXCEPT ![p] = WithModel(@, m)]
  /\ UNCHANGED <<at, todo, history, clients, said, fileVars>>

Switched(p, v) ==
  [provider |-> v, model |-> Default[v], key |-> v, client |-> <<v, v, Default[v]>>]

SwitchProvider(p, v) ==
  /\ AtPrompt(p) /\ KeyOf(v)
  /\ settings' = [settings EXCEPT ![p] = Switched(p, v)]
  /\ UNCHANGED <<at, todo, history, clients, said, fileVars>>

ClearHistory(p) ==
  /\ AtPrompt(p)
  /\ history' = [history EXCEPT ![p] = <<>>]
  /\ said' = [said EXCEPT ![p] = <<>>]
  /\ UNCHANGED <<at, todo, settings, clients, fileVars>>

(* /mcp add: saved once it is connected.                                   *)
McpAdd(p, s) ==
  /\ AtPrompt(p)
  /\ Connected(p, s)
  /\ Goes(p, "adding")
  /\ \E config \in LoadConfig : Save(p, config, WithServer(config, s))
  /\ UNCHANGED <<todo, settings, history, said>>

McpConnect(p, s) ==
  /\ AtPrompt(p) /\ \E config \in LoadConfig : s \in ToSet(config.servers)
  /\ Connected(p, s)
  /\ UNCHANGED <<at, todo, settings, history, said, fileVars>>

(* disconnect(): a client that cannot be closed stays, and what it throws  *)
(* ends the session.                                                       *)
McpDisconnect(p, s) ==
  /\ AtPrompt(p) /\ s \in clients[p]
  /\ \/ clients' = [clients EXCEPT ![p] = @ \ {s}] /\ UNCHANGED <<at, todo>>
     \/ Closing(p) /\ UNCHANGED clients
  /\ UNCHANGED <<settings, history, said, fileVars>>

McpRemove(p, s) ==
  /\ AtPrompt(p)
  /\ UNCHANGED <<settings, history, said>>
  /\ \/ /\ clients' = [clients EXCEPT ![p] = @ \ {s}]
        /\ UNCHANGED todo
        /\ \E config \in LoadConfig :
             IF s \in ToSet(config.servers)
               THEN Goes(p, "removing") /\ Save(p, config, Without(config, s))
               ELSE UNCHANGED <<at, fileVars>>
     \/ s \in clients[p] /\ Closing(p) /\ UNCHANGED <<clients, fileVars>>

-----------------------------------------------------------------------------
(* chat(): the prompt goes into the history, the history to the agent.     *)
Chat(p) ==
  /\ AtPrompt(p) /\ Len(said[p]) < MaxSaid
  /\ Goes(p, "chatting")
  /\ history' = [history EXCEPT ![p] = Append(@, [role |-> "user", nth |-> Len(said[p]) + 1])]
  /\ UNCHANGED <<todo, settings, clients, said, fileVars>>

Trimmed(h) == IF Len(h) > MaxHistory THEN SubSeq(h, Len(h) - MaxHistory + 1, Len(h)) ELSE h

(* Variant: what was asked stays when no answer comes.                     *)
WithoutAnswerStays(h) == h

WithoutAnswer(h) == Front(h)

(* The stream ends with an answer, or with an empty one: only an answer is *)
(* added, and only then is the history cut.  An error takes the prompt     *)
(* back.  Discovering the tools of a client that is gone fails quietly.    *)
ChatEnds(p) ==
  LET asked == Last(history[p])
      answer == [role |-> "assistant", nth |-> asked.nth + 1]
  IN  /\ at[p] = "chatting"
      /\ \/ /\ history' = [history EXCEPT ![p] = Trimmed(Append(@, answer))]
            /\ said' = [said EXCEPT ![p] = @ \o <<asked, answer>>]
         \/ said' = [said EXCEPT ![p] = Append(@, asked)] /\ UNCHANGED history
         \/ history' = [history EXCEPT ![p] = WithoutAnswer(@)] /\ UNCHANGED said
      /\ \/ Goes(p, "prompt") /\ UNCHANGED todo
         \/ Closing(p)
      /\ UNCHANGED <<settings, clients, fileVars>>

(* /exit, or the end of the input: the usage is persisted, whatever comes  *)
(* of it, and closeAll() closes one client after the other, until one      *)
(* cannot be closed.                                                       *)
Exit(p) ==
  /\ AtPrompt(p)
  /\ Closing(p)
  /\ UNCHANGED <<settings, history, clients, said, fileVars>>

CloseNext(p) ==
  /\ at[p] = "closing"
  /\ \/ /\ todo[p] = {}
        /\ Goes(p, "gone")
        /\ UNCHANGED <<todo, clients>>
     \/ \E s \in todo[p] :
          /\ clients' = [clients EXCEPT ![p] = @ \ {s}]
          /\ todo' = [todo EXCEPT ![p] = @ \ {s}]
          /\ UNCHANGED at
     \/ /\ todo[p] # {}
        /\ Goes(p, "stuck")
        /\ UNCHANGED <<todo, clients>>
  /\ UNCHANGED <<settings, history, said, fileVars>>

(* A process is killed.                                                    *)
Crash(p) ==
  /\ saving[p].step # "none"
  /\ Goes(p, "killed")
  /\ saving' = [saving EXCEPT ![p] = NotSaving]
  /\ clash' = (clash \/ saving[p].step = "truncated")
  /\ UNCHANGED <<rc, todo, settings, history, clients, said, keys>>

Next ==
  \E p \in Shells :
    \/ Truncate(p) \/ Write(p) \/ WriteFails(p) \/ Crash(p)
    \/ ConnectSaved(p) \/ ClearHistory(p) \/ Chat(p) \/ ChatEnds(p) \/ Exit(p) \/ CloseNext(p)
    \/ \E v \in Providers : SetKey(p, v) \/ StartRepl(p, v) \/ SwitchProvider(p, v)
    \/ \E m \in Models : SwitchModel(p, m)
    \/ \E s \in Servers : McpAdd(p, s) \/ McpConnect(p, s) \/ McpDisconnect(p, s) \/ McpRemove(p, s)

Spec == Init /\ [][Next]_vars

-----------------------------------------------------------------------------
(* The agent is shown the end of what was said: failed prompts are gone,   *)
(* the rest is in order, and after an answer the history is within its     *)
(* bound.                                                                  *)
HistoryIsWhole ==
  \A p \in Shells :
    LET h == IF at[p] = "chatting" THEN Front(history[p]) ELSE history[p]
    IN  /\ IsSuffix(h, said[p])
        /\ Len(h) >= MaxHistory \/ h = said[p]
        /\ h # <<>> /\ Last(h).role = "assistant" => Len(h) <= MaxHistory

(* The client that answers is the one that is shown, with the key of its   *)
(* provider.                                                               *)
ModelIsShown ==
  \A p \in Shells : settings[p].provider # "none" =>
    settings[p].client = <<settings[p].provider, settings[p].provider, settings[p].model>>
      /\ settings[p].key = settings[p].provider

(* No key is lost unless two processes save at one time, one is killed or  *)
(* fails while it writes, or one that saves could not read the file: not   *)
(* by sessions and commands that read, edit and write it in turn, nor by   *)
(* those that are killed or fail before they write.  And whatever happens, *)
(* no server is saved twice.                                               *)
ConfigIsKept ==
  /\ rc.whole /\ ~clash => keys \subseteq rc.text.keys
  /\ IsInjective(rc.text.servers)

(* A session that has ended its way has closed all its clients.            *)
ClientsAreClosed == \A p \in Shells : at[p] = "gone" => clients[p] = {}

(* A session of the shell says what is so: its history, its model, the     *)
(* configuration on disk and the MCP clients it opened (startRepl,         *)
(* config.ts).                                                             *)
SessionIsTrue == HistoryIsWhole /\ ModelIsShown /\ ConfigIsKept /\ ClientsAreClosed
=============================================================================
