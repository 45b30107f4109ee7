----------------------------- MODULE GatewayRun -----------------------------
(***************************************************************************)
(* What Run answers from: internal/gateway/server.go Run between the       *)
(* events it enqueues, composed with the session of SessionManager.        *)
(*                                                                         *)
(* Run does not wait for the worker: CompilePrompt takes the history as it *)
(* finds it, looking the session up again and reading its tree after it    *)
(* let go of the lock.  Meanwhile the worker goes on, shuts the idle       *)
(* session down, and another handler may have created it again.            *)
(***************************************************************************)
EXTENDS SessionManager, SequencesExt

VARIABLES
  stage,    \* how far CompilePrompt of a handler is
  reading,  \* the incarnation whose tree it reads
  prompt,   \* the history it found
  answers   \* history: [answer, prompt], what each answer was based on

runVars == <<stage, reading, prompt, answers>>
allVars == <<vars, runVars>>

RunInit ==
  /\ Init
  /\ stage = [c \in Clients |-> "lookup"]
  /\ reading = [c \in Clients |-> NoSession]
  /\ prompt = [c \in Clients |-> <<>>]
  /\ answers = {}

(* CompilePrompt looks the session up; when it is gone the prompt has no    *)
(* memory.                                                                  *)
CompileLookup(c) ==
  /\ at[c] = "llm" /\ stage[c] = "lookup"
  /\ reading' = [reading EXCEPT ![c] = current]
  /\ stage' = [stage EXCEPT ![c] = IF current = NoSession THEN "ask" ELSE "read"]
  /\ UNCHANGED <<vars, prompt, answers>>

(* The tree it found, whether or not that session is still the one in the   *)
(* map.                                                                     *)
CompileRead(c) ==
  /\ at[c] = "llm" /\ stage[c] = "read"
  /\ prompt' = [prompt EXCEPT ![c] = tree[reading[c]]]
  /\ stage' = [stage EXCEPT ![c] = "ask"]
  /\ UNCHANGED <<vars, reading, answers>>

Forgotten(c) ==
  /\ stage' = [stage EXCEPT ![c] = "lookup"]
  /\ reading' = [reading EXCEPT ![c] = NoSession]
  /\ prompt' = [prompt EXCEPT ![c] = <<>>]

(* The model answers, or it fails and Run returns without a second event. *)
Ask(c) ==
  /\ stage[c] = "ask"
  /\ Generate(c)
  /\ Forgotten(c)
  /\ answers' = IF at'[c] = "ready" THEN answers
                ELSE answers \cup {[answer |-> <<c, sent'[c]>>, prompt |-> prompt[c]]}

Others ==
  \/ \E c \in Clients :
       \/ \E k \in {"capture", "run"} : Call(c, k)
       \/ GetOrCreate(c) \/ EnqueueLookup(c) \/ EnqueueSend(c)
  \/ \E i \in Incarnations : Worker(i)
  \/ GoIdle

CrashAll ==
  /\ Crash
  /\ stage' = [c \in Clients |-> "lookup"]
  /\ reading' = [c \in Clients |-> NoSession]
  /\ prompt' = [c \in Clients |-> <<>>]
  /\ UNCHANGED answers

RunNext ==
  \/ Others /\ UNCHANGED runVars
  \/ \E c \in Clients : CompileLookup(c) \/ CompileRead(c) \/ Ask(c)
  \/ CrashAll

RunSpec == RunInit /\ [][RunNext]_allVars

-----------------------------------------------------------------------------
(* Properties *)

(* There is one conversation: as long as nothing crashed and no store       *)
(* operation failed, whatever a prompt was compiled from, also from a       *)
(* session that was shut down and created again meanwhile, is how the       *)
(* history of the session still begins.                                     *)
PromptsArePast ==
  crashes = 0 /\ failures = 0 =>
    /\ \A c \in Clients : IsPrefix(prompt[c], History)
    /\ \A a \in answers : IsPrefix(a.prompt, History)

(* An answer comes after what it was based on: if its turn is in the        *)
(* history, so are all the turns of its prompt, before it and in their      *)
(* order; also after crashes, which take the end of the history only.       *)
AnswersFollowTheirPrompt ==
  failures = 0 =>
    \A a \in answers : \A j \in DOMAIN History :
      History[j] = a.answer => IsPrefix(a.prompt, SubSeq(History, 1, j - 1))
=============================================================================
