------------------------------ MODULE RunChains ------------------------------
(***************************************************************************)
(* The two chains of a v1 run as its scripts see them: transactions of one *)
(* account, ordered by nonce on each chain, wait in a pool, may be dropped *)
(* from it, and are mined, one or two to a block; anyone may relay a       *)
(* source event to a gate.  A contract's address is the nonce that         *)
(* deployed it, a transaction's hash what it is.  Blocks are final.        *)
(***************************************************************************)
EXTENDS Integers, Sequences, FiniteSets, FiniteSetsExt

CONSTANTS
  MaxSourceNonce, MaxDestNonce,  \* bounds: transactions of the account
  MaxMishaps   \* bound: what goes wrong in a run, all told

ASSUME ChainConstants ==
  /\ MaxSourceNonce \in Nat /\ MaxDestNonce \in Nat
  /\ MaxMishaps \in Nat

SourceKinds == {"source-deploy", "source-open", "source-repay"}
ProofKinds == {"debt-opened", "debt-repaid"}
DeployKinds == {"decoder-deploy", "gate-deploy"}
Kinds == SourceKinds \cup ProofKinds \cup DeployKinds \cup {"commit-credit"}

ChainOf(k) == IF k \in SourceKinds THEN "source" ELSE "destination"
MaxNonce(c) == IF c = "source" THEN MaxSourceNonce ELSE MaxDestNonce

VARIABLES
  fate,   \* of every transaction ever sent
  loan,   \* source contracts: debt events emitted
  gate,   \* gates: debt events applied, and whether credit is committed
  mishaps \* how often each kind of mishap happened

chainVars == <<fate, loan, gate, mishaps>>

(* A transaction dropped from the pool; a proof a stranger relays; the       *)
(* attestation horizon moving past saved bundles; a script that is killed or *)
(* whose call fails; a script started while another one runs.                *)
Mishaps == {"drop", "relay", "expiry", "crash", "overlap"}

Happens(m) ==
  /\ mishaps["drop"] + mishaps["relay"] + mishaps["expiry"] + mishaps["crash"]
       + mishaps["overlap"] < MaxMishaps
  /\ mishaps' = [mishaps EXCEPT ![m] = @ + 1]

(* The horizon: the verifier refuses a bundle of another one. *)
epoch == 1 + mishaps["expiry"]

ChainInit ==
  /\ fate = << >>
  /\ loan = [n \in 1..MaxSourceNonce |-> 0]
  /\ gate = [n \in 1..MaxDestNonce |-> [events |-> 0, committed |-> FALSE]]
  /\ mishaps = [m \in Mishaps |-> 0]

Sent == DOMAIN fate
Known(t) == t \in Sent /\ fate[t] # "dropped"
Succeeded(t) == t \in Sent /\ fate[t] \in {"matched", "succeeded"}
Live(t) == Succeeded(t) \/ (t \in Sent /\ fate[t] = "pool")

-----------------------------------------------------------------------------
(* The contracts, as a pair of their states. *)
Contracts == [loan |-> loan, gate |-> gate]

(* openDebt once, repayDebt(20) of 50 twice, every event once and in order *)
(* with a bundle the verifier accepts, commitCredit(30, version 2) once.   *)
Accepts(s, t) ==
  CASE t.kind = "source-open"   -> s.loan[t.on[1]] = 0
    [] t.kind = "source-repay"  -> s.loan[t.on[1]] \in {1, 2}
    [] t.kind = "debt-opened"   -> s.gate[t.on[1]].events = 0 /\ t.bundle = epoch
    [] t.kind = "debt-repaid"   -> s.gate[t.on[1]].events = 1 /\ t.bundle = epoch
    [] t.kind = "commit-credit" -> s.gate[t.on[1]] = [events |-> 2, committed |-> FALSE]
    [] OTHER -> TRUE

After(s, t) ==
  CASE ~Accepts(s, t) -> s
    [] t.kind \in {"source-open", "source-repay"} -> [s EXCEPT !.loan[t.on[1]] = @ + 1]
    [] t.kind \in ProofKinds -> [s EXCEPT !.gate[t.on[1]].events = @ + 1]
    [] t.kind = "commit-credit" -> [s EXCEPT !.gate[t.on[1]].committed = TRUE]
    [] OTHER -> s

(* A gate is deployed for one decoder and one source contract. *)
Relayed(s) ==
  {[s EXCEPT !.gate[g.nonce].events = @ + 1] : g \in {t \in Sent :
     t.kind = "gate-deploy" /\ Succeeded(t) /\ s.gate[t.nonce].events < s.loan[t.on[2]]}}

(* The state a step's record must find at the end of its block. *)
SourceRecords(s, t) ==
  s.loan[t.on[1]] = (IF t.kind = "source-open" THEN 1 ELSE 2)

Records(s, t) ==
  CASE t.kind \in {"source-open", "source-repay"} -> SourceRecords(s, t)
    [] t.kind = "debt-opened"   -> s.gate[t.on[1]] = [events |-> 1, committed |-> FALSE]
    [] t.kind = "debt-repaid"   -> s.gate[t.on[1]] = [events |-> 2, committed |-> FALSE]
    [] t.kind = "commit-credit" -> s.gate[t.on[1]] = [events |-> 2, committed |-> TRUE]
    [] OTHER -> TRUE

Outcome(before, t, end) ==
  IF ~Accepts(before, t) THEN "reverted"
  ELSE IF Records(end, t) THEN "matched" ELSE "succeeded"

-----------------------------------------------------------------------------
Pool(c) == {t \in Sent : ChainOf(t.kind) = c /\ fate[t] = "pool"}
Taken(c) == {t.nonce : t \in {u \in Sent : ChainOf(u.kind) = c /\ fate[u] # "dropped"}}

(* eth_getTransactionCount(account, "pending") *)
NextNonce(c) == Min((1..(MaxNonce(c) + 1)) \ Taken(c))

(* A nonce that is taken is refused. *)
Broadcast(t) ==
  /\ t.nonce \in 1..MaxNonce(ChainOf(t.kind)) /\ t.nonce \notin Taken(ChainOf(t.kind))
  /\ fate' = [u \in Sent \cup {t} |-> IF u = t THEN "pool" ELSE fate[u]]
  /\ UNCHANGED <<loan, gate, mishaps>>

First(c) == {t \in Pool(c) : \A n \in 1..(t.nonce - 1) :
               \E u \in Sent : ChainOf(u.kind) = c /\ u.nonce = n
                            /\ (Succeeded(u) \/ fate[u] = "reverted")}

EndsIn(s, outcomes) ==
  /\ fate' = [t \in Sent |-> IF t \in DOMAIN outcomes THEN outcomes[t] ELSE fate[t]]
  /\ loan' = s.loan /\ gate' = s.gate

(* A block with one transaction of the account, perhaps a relayed proof *)
(* after it, or with its next transaction.                              *)
MineAlone(t) ==
  LET s == After(Contracts, t)
  IN EndsIn(s, [x \in {t} |-> Outcome(Contracts, t, s)]) /\ UNCHANGED mishaps

MineBeforeRelay(t) ==
  LET s == After(Contracts, t)
  IN \E end \in Relayed(s) :
       /\ ChainOf(t.kind) = "destination"
       /\ EndsIn(end, [x \in {t} |-> Outcome(Contracts, t, end)]) /\ Happens("relay")

MineBoth(t, u) ==
  LET s == After(Contracts, t)
      end == After(s, u)
  IN /\ u.nonce = t.nonce + 1
     /\ EndsIn(end, [x \in {t, u} |-> Outcome(IF x = t THEN Contracts ELSE s, x, end)]) /\ UNCHANGED mishaps

MineBlock ==
  \E c \in {"source", "destination"} : \E t \in First(c) :
    MineAlone(t) \/ MineBeforeRelay(t) \/ \E u \in Pool(c) : MineBoth(t, u)

Relay ==
  \E s \in Relayed(Contracts) : EndsIn(s, << >>) /\ Happens("relay")

Drop ==
  \E t \in Sent :
    /\ fate[t] = "pool" /\ Happens("drop")
    /\ fate' = [fate EXCEPT ![t] = "dropped"]
    /\ UNCHANGED <<loan, gate>>

(* The horizon a saved proof's continuity reaches is no longer kept. *)
Expire == Happens("expiry") /\ UNCHANGED <<fate, loan, gate>>

Chains == MineBlock \/ Relay \/ Drop \/ Expire
=============================================================================
