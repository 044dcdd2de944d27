--------------------- MODULE SettlementExecutionProofs ---------------------
(***************************************************************************)
(* Theorems about SettlementExecution, for any number of requests, permits *)
(* and transactions.                                                       *)
(*                                                                         *)
(* The properties are not inductive: a step trusts what an earlier step of *)
(* its request established.  Sound says what that still implies, given the *)
(* claim c, the columns s, the chain ch and what administrators vouched    *)
(* for, h; taking these as parameters lets one lemma speak of the state    *)
(* before a step and of the one after.                                     *)
(***************************************************************************)
EXTENDS SettlementExecution, TLAPS

RunType == [pc : PCs, permit : Permits \cup {None}, tx : Signatures \cup {None},
            sig : Columns, plan : Seq(Statuses), again : BOOLEAN,
            read : Statuses \cup {None}, hand : SUBSET Acts]

ClaimType == [state : {"unclaimed", "claimed", "broadcast_submitted",
                       "broadcast_unknown"}, token : Workers \cup {None}]

ChainType == [Txs -> {"none", "sent", "ok", "err"}]

Silent(ch) == \A t \in Txs : ch[t] = "none"

Paid(s, ch) == s.commission \in Txs /\ ch[s.commission] = "ok"

\* What a confirmation stands on that no administrator gave.
Shown(s, ch, h) == Filled(s) /\ ("signature" \notin h => Paid(s, ch))

Confirms(plan) == \E i \in 1..Len(plan) : plan[i] = "release_confirmed"

\* What a request in the middle of its work may rely on.
Sound(w, r, c, s, ch, h) ==
  /\ r.pc \in {"send", "record", "unknown"} => c.state # "unclaimed" /\ c.token = w
  /\ r.pc = "send" => c.state = "claimed" /\ Silent(ch)
  /\ r.pc = "record" => c.state = "claimed" /\ r.tx \in Txs /\ ch[r.tx] # "none"
  /\ r.pc = "verify" =>
       Filled(s) /\ ("signature" \notin h => r.tx = s.commission)
  /\ r.pc \in {"move", "write"} => r.plan # <<>>
  /\ r.pc = "write" => Head(r.plan) \in Allowed(r.read)
  /\ r.pc = "claim" => r.permit \in Permits
  /\ r.hand # {} => r.pc = "write" /\ Tail(r.plan) = <<>>
  /\ r.sig # Unsigned /\ "signature" \notin h /\ "signature" \notin r.hand => r.sig = s
  /\ Confirms(r.plan) /\ "confirmation" \notin r.hand => Shown(s, ch, h)

\* The columns are the code's own: one signature, of the broadcast submitted.
Own(c, s, ch) ==
  /\ s.commission = s.payout
  /\ s # Unsigned <=> c.state = "broadcast_submitted"
  /\ s # Unsigned => s.commission \in Txs /\ ch[s.commission] # "none"

\* What the tables and the chain imply for each other.
Consistent(st, c, s, ch, h) ==
  /\ \A t, u \in Txs : ch[t] # "none" /\ ch[u] # "none" => t = u
  /\ c.state = "unclaimed" => Silent(ch)
  /\ c.state = "broadcast_submitted" => Filled(s)
  /\ "signature" \notin h => Own(c, s, ch)
  /\ st \in Released /\ "confirmation" \notin h => Shown(s, ch, h)

IInv ==
  /\ TypeOK
  /\ \A w \in Workers : Sound(w, run[w], claim, sig, chain, byHand)
  /\ Consistent(status, claim, sig, chain, byHand)
  /\ PermitIsSpentOnce

\* A worker has the row of a run.
LEMMA RunTyped ==
  ASSUME IInv, NEW w \in Workers
  PROVE  run[w] \in RunType
  BY DEF IInv, TypeOK, RunType

-----------------------------------------------------------------------------
(* Facts about the transition table and about plans.                        *)

LEMMA SettledFromConfirmed ==
  ASSUME NEW st, "settled" \in Allowed(st)
  PROVE  st = "release_confirmed"
  BY DEF Allowed

LEMMA BothType ==
  ASSUME NEW x \in Signatures \cup {None}
  PROVE  /\ Both(x) \in Columns
         /\ Both(x).commission = x /\ Both(x).payout = x
         /\ Filled(Both(x)) <=> x # None
         /\ Both(x) = Unsigned <=> x = None
  BY DEF Both, Unsigned, Columns, Filled

LEMMA UnsignedType == Unsigned \in Columns /\ ~Filled(Unsigned)
  BY BothType DEF Unsigned

\* COALESCE fills columns, and empties none.
LEMMA PreferredOK ==
  ASSUME NEW x \in Columns, NEW y \in Columns
  PROVE  /\ Preferred(x, y) \in Columns
         /\ y.commission # None => Preferred(x, y).commission # None
         /\ y.payout # None => Preferred(x, y).payout # None
         /\ Filled(y) => Filled(Preferred(x, y))
         /\ x = Unsigned \/ x = y => Preferred(x, y) = y
  <1> DEFINE z == Preferred(x, y)
  <1>1. /\ z = [c \in {"commission", "payout"} |-> IF x[c] # None THEN x[c] ELSE y[c]]
        /\ x["commission"] \in Signatures \cup {None}
        /\ x["payout"] \in Signatures \cup {None}
        /\ y["commission"] \in Signatures \cup {None}
        /\ y["payout"] \in Signatures \cup {None}
    BY DEF Preferred, Columns
  <1>2. /\ z["commission"] = IF x["commission"] # None THEN x["commission"] ELSE y["commission"]
        /\ z["payout"] = IF x["payout"] # None THEN x["payout"] ELSE y["payout"]
    BY <1>1
  <1>3. z = [commission |-> z["commission"], payout |-> z["payout"]]
    BY <1>1
  <1>4. y = [commission |-> y["commission"], payout |-> y["payout"]]
    BY DEF Columns
  <1>5. x = Unsigned => x["commission"] = None /\ x["payout"] = None
    BY DEF Unsigned, Both
  <1>6. x = Unsigned \/ x = y => z["commission"] = y["commission"] /\ z["payout"] = y["payout"]
    BY <1>2, <1>5
  <1>7. z \in Columns
    <2>1. z["commission"] \in Signatures \cup {None} /\ z["payout"] \in Signatures \cup {None}
      BY <1>1, <1>2
    <2> HIDE DEF z
    <2> QED
      BY <1>3, <2>1 DEF Columns
  <1>8. x = Unsigned \/ x = y => z = y
    BY <1>3, <1>4, <1>6
  <1> QED
    BY <1>2, <1>7, <1>8 DEF Filled

LEMMA IdleType == Idle \in RunType
  BY UnsignedType DEF Idle, RunType, PCs

LEMMA IdleSound ==
  ASSUME NEW w, NEW c, NEW s, NEW ch, NEW h
  PROVE  Sound(w, Idle, c, s, ch, h)
  BY DEF Sound, Idle, Confirms

\* A plan starts with a transition, if it has one; it carries the signatures.
LEMMA PlanType ==
  ASSUME NEW plan \in Seq(Statuses), NEW s \in Columns, NEW b \in BOOLEAN
  PROVE  /\ Plan(plan, s, b) \in RunType
         /\ Plan(plan, s, b).pc \in {"idle", "again", "move"}
         /\ Plan(plan, s, b).pc = "move" => plan # <<>>
         /\ Plan(plan, s, b).sig \in {s, Unsigned}
         /\ Plan(plan, s, b).plan = plan
         /\ Plan(plan, s, b).hand = {}
  <1>1. CASE plan # <<>>
    BY <1>1, UnsignedType DEF Plan, Idle, RunType, PCs
  <1>2. CASE plan = <<>>
    BY <1>2, UnsignedType DEF Plan, Idle, RunType, PCs
  <1> QED
    BY <1>1, <1>2

LEMMA PlanSound ==
  ASSUME NEW w, NEW c, NEW s, NEW ch, NEW h,
         NEW plan \in Seq(Statuses), NEW x \in Columns, NEW b \in BOOLEAN,
         x # Unsigned /\ "signature" \notin h => x = s,
         Confirms(plan) => Shown(s, ch, h)
  PROVE  Sound(w, Plan(plan, x, b), c, s, ch, h)
  <1> DEFINE r == Plan(plan, x, b)
  <1>1. /\ r.pc \in {"idle", "again", "move"}
        /\ r.pc = "move" => r.plan # <<>>
        /\ r.sig \in {x, Unsigned}
        /\ r.plan = plan
        /\ r.hand = {}
    BY PlanType
  <1> HIDE DEF r
  <1>2. r.sig # Unsigned /\ "signature" \notin h => r.sig = s
    BY <1>1
  <1>3. r.pc \notin {"send", "record", "unknown", "verify", "write", "claim"}
    BY <1>1
  <1>4. Confirms(r.plan) => Shown(s, ch, h)
    BY <1>1
  <1>5. Sound(w, r, c, s, ch, h)
    BY <1>1, <1>2, <1>3, <1>4 DEF Sound
  <1> QED
    BY <1>5 DEF r

\* A plan of one transition.
LEMMA OneMove ==
  ASSUME NEW n \in Statuses
  PROVE  /\ <<n>> \in Seq(Statuses)
         /\ Head(<<n>>) = n /\ Tail(<<n>>) = <<>> /\ <<n>> # <<>>
         /\ n # "release_confirmed" => ~Confirms(<<n>>)
  BY DEF Confirms

LEMMA TailOK ==
  ASSUME NEW plan \in Seq(Statuses), plan # <<>>
  PROVE  /\ Tail(plan) \in Seq(Statuses)
         /\ Head(plan) \in Statuses
         /\ Confirms(Tail(plan)) => Confirms(plan)
         /\ Head(plan) = "release_confirmed" => Confirms(plan)
  <1>1. /\ Tail(plan) \in Seq(Statuses)
        /\ Len(plan) \in Nat /\ Len(plan) > 0
        /\ Len(Tail(plan)) = Len(plan) - 1
        /\ \A i \in 1..Len(Tail(plan)) : Tail(plan)[i] = plan[i + 1]
        /\ Head(plan) = plan[1] /\ Head(plan) \in Statuses
    OBVIOUS
  <1>2. ASSUME Confirms(Tail(plan)) PROVE Confirms(plan)
    <2>1. PICK i \in 1..Len(Tail(plan)) : Tail(plan)[i] = "release_confirmed"
      BY <1>2 DEF Confirms
    <2>2. i + 1 \in 1..Len(plan) /\ plan[i + 1] = "release_confirmed"
      BY <2>1, <1>1
    <2> QED
      BY <2>2 DEF Confirms
  <1>3. 1 \in 1..Len(plan)
    BY <1>1
  <1> QED
    BY <1>1, <1>2, <1>3 DEF Confirms

LEMMA RecoveryOK ==
  ASSUME NEW st
  PROVE  Recovery(st) \in Seq(Statuses) /\ ~Confirms(Recovery(st))
  <1>1. /\ <<"ready_for_release", "release_submitted">> \in Seq(Statuses)
        /\ <<"release_submitted">> \in Seq(Statuses) /\ <<>> \in Seq(Statuses)
    BY DEF Statuses
  <1>2. /\ ~Confirms(<<"ready_for_release", "release_submitted">>)
        /\ ~Confirms(<<"release_submitted">>) /\ ~Confirms(<<>>)
    BY DEF Confirms
  <1>3. Recovery(st) \in {<<"ready_for_release", "release_submitted">>,
                          <<"release_submitted">>, <<>>}
    <2>1. CASE st = "release_failed"
      BY <2>1 DEF Recovery
    <2>2. CASE st = "ready_for_release"
      BY <2>2 DEF Recovery
    <2>3. CASE st \notin {"release_failed", "ready_for_release"}
      BY <2>3 DEF Recovery
    <2> QED
      BY <2>1, <2>2, <2>3
  <1> QED
    BY <1>1, <1>2, <1>3

LEMMA DecisionsOK ==
  ASSUME NEW st, NEW n \in Decisions(st)
  PROVE  n \in Statuses /\ n # "release_confirmed"
  BY DEF Decisions, Statuses, Recorded, Released

-----------------------------------------------------------------------------
(* Frames: what a request relies on survives the steps of the others.       *)

\* Another request takes the claim: this one held none.
LEMMA FrameClaim ==
  ASSUME NEW w, NEW v, NEW r, NEW c, NEW s, NEW ch, NEW h,
         Sound(v, r, c, s, ch, h), c.state = "unclaimed"
  PROVE  Sound(v, r, [state |-> "claimed", token |-> w], s, ch, h)
  BY DEF Sound

\* Another request sends: this one has nothing left to send.
LEMMA FrameSend ==
  ASSUME NEW w, NEW v, w # v, NEW r, NEW c, NEW s, NEW ch \in ChainType, NEW h,
         NEW t \in Txs, r \in RunType,
         Sound(v, r, c, s, ch, h), c.token = w, ch[t] = "none"
  PROVE  Sound(v, r, c, s, [ch EXCEPT ![t] = "sent"], h)
  <1>1. r.pc \notin {"send", "record", "unknown"}
    BY DEF Sound
  <1>2. Shown(s, ch, h) => Shown(s, [ch EXCEPT ![t] = "sent"], h)
    BY DEF Shown, Paid, ChainType
  <1> QED
    BY <1>1, <1>2 DEF Sound

\* The first signature is stored, by the holder of the claim or by the
\* supervisor when no request holds it any more: nothing was confirmed, and
\* nobody carries a signature of the code's own.
LEMMA FrameSubmit ==
  ASSUME NEW v, NEW r, NEW c \in ClaimType, NEW ch, NEW h, NEW t \in Txs,
         r \in RunType, Sound(v, r, c, Unsigned, ch, h),
         c.state = "claimed" => c.token # v \/ r.pc \notin {"send", "record"}
  PROVE  Sound(v, r, [c EXCEPT !.state = "broadcast_submitted"], Both(t), ch, h)
  <1>1. /\ [c EXCEPT !.state = "broadcast_submitted"].state = "broadcast_submitted"
        /\ [c EXCEPT !.state = "broadcast_submitted"].token = c.token
    BY DEF ClaimType
  <1>2. ~Filled(Unsigned) /\ ~Shown(Unsigned, ch, h)
    BY UnsignedType DEF Shown
  <1>3. r.sig # Unsigned => "signature" \in h \/ "signature" \in r.hand
    BY DEF Sound
  <1> QED
    BY <1>1, <1>2, <1>3 DEF Sound

\* Another request marks its broadcast unknown.
LEMMA FrameMark ==
  ASSUME NEW w, NEW v, w # v, NEW r, NEW c \in ClaimType, NEW s, NEW ch, NEW h,
         Sound(v, r, c, s, ch, h), c.token = w
  PROVE  Sound(v, r, [c EXCEPT !.state = "broadcast_unknown"], s, ch, h)
  BY DEF Sound, ClaimType

\* The chain executes a transaction that was sent.
LEMMA FrameLand ==
  ASSUME NEW v, NEW r, NEW c, NEW s, NEW ch \in ChainType, NEW h,
         NEW t \in Txs, NEW x \in {"ok", "err"}, ch[t] = "sent",
         Sound(v, r, c, s, ch, h)
  PROVE  Sound(v, r, c, s, [ch EXCEPT ![t] = x], h)
  <1>1. Shown(s, ch, h) => Shown(s, [ch EXCEPT ![t] = x], h)
    BY DEF Shown, Paid, ChainType
  <1>2. ~Silent(ch)
    BY DEF Silent
  <1>3. \A u \in Txs : ch[u] # "none" => [ch EXCEPT ![t] = x][u] # "none"
    BY DEF ChainType
  <1> QED
    BY <1>1, <1>2, <1>3 DEF Sound

\* A transition writes the columns: as they are, or an administrator's.
LEMMA FrameWrite ==
  ASSUME NEW v, NEW r, NEW c, NEW s, NEW ch, NEW h, NEW s2, NEW h2,
         h \subseteq h2, Sound(v, r, c, s, ch, h),
         s2 = s \/ ("signature" \in h2 /\ (Filled(s) => Filled(s2)))
  PROVE  Sound(v, r, c, s2, ch, h2)
  <1>1. Shown(s, ch, h) => Shown(s2, ch, h2)
    BY DEF Shown
  <1> QED
    BY <1>1 DEF Sound

-----------------------------------------------------------------------------
(* The invariant, step by step.                                             *)

\* A worker moves to the record r; the others rely on what is left to them.
LEMMA RunStep ==
  ASSUME IInv, NEW w \in Workers, NEW r \in RunType, Set(w, r),
         Sound(w, r, claim', sig', chain', byHand'),
         \A v \in Workers : v # w => Sound(v, run[v], claim', sig', chain', byHand')
  PROVE  /\ run' \in [Workers -> RunType]
         /\ \A v \in Workers : Sound(v, run'[v], claim', sig', chain', byHand')
  <1>1. run \in [Workers -> RunType]
    BY DEF IInv, TypeOK, RunType
  <1>2. /\ run'[w] = r
        /\ \A v \in Workers : v # w => run'[v] = run[v]
    BY <1>1 DEF Set
  <1> QED
    BY <1>1, <1>2 DEF Set

\* Steps that leave the tables and the chain alone.
LEMMA CalmStep ==
  ASSUME IInv, NEW w \in Workers, NEW r \in RunType, Set(w, r), UNCHANGED row,
         Sound(w, r, claim, sig, chain, byHand)
  PROVE  IInv'
  <1>1. \A v \in Workers : v # w => Sound(v, run[v], claim, sig, chain, byHand)
    BY DEF IInv
  <1>2. /\ run' \in [Workers -> RunType]
        /\ \A v \in Workers : Sound(v, run'[v], claim, sig, chain, byHand)
    BY <1>1, RunStep DEF row
  <1>3. TypeOK'
    BY <1>2 DEF IInv, TypeOK, row, RunType
  <1> QED
    BY <1>2, <1>3 DEF IInv, row, PermitIsSpentOnce

\* A request decides on one transition, and passes at most the signatures.
LEMMA DecideStep ==
  ASSUME IInv, NEW w \in Workers, NEW n \in Statuses, NEW s \in Columns,
         s # Unsigned /\ "signature" \notin byHand => s = sig,
         n = "release_confirmed" => Shown(sig, chain, byHand),
         Set(w, Plan(<<n>>, s, FALSE)), UNCHANGED row
  PROVE  IInv'
  <1>2. Plan(<<n>>, s, FALSE) \in RunType
    BY OneMove, PlanType
  <1>3. Sound(w, Plan(<<n>>, s, FALSE), claim, sig, chain, byHand)
    BY OneMove, PlanSound
  <1> QED
    BY <1>2, <1>3, CalmStep

\* The next step of a request that has nothing in hand but its place.
LEMMA PlaceStep ==
  ASSUME IInv, NEW w \in Workers, NEW pc \in {"idle", "permit"},
         Set(w, [Idle EXCEPT !.pc = pc]), UNCHANGED row
  PROVE  IInv'
  <1>1. [Idle EXCEPT !.pc = pc] \in RunType
    <2>1. Idle \in RunType /\ pc \in PCs
      BY IdleType DEF PCs
    <2> QED
      BY <2>1 DEF RunType
  <1>2. Sound(w, [Idle EXCEPT !.pc = pc], claim, sig, chain, byHand)
    BY DEF Sound, Idle, Confirms
  <1> QED
    BY <1>1, <1>2, CalmStep

LEMMA IdleStep ==
  ASSUME IInv, NEW w \in Workers, Set(w, Idle), UNCHANGED row
  PROVE  IInv'
  BY IdleType, IdleSound, CalmStep

LEMMA VerifyStarts ==
  ASSUME IInv, NEW w \in Workers, Agreed(sig), NEW s \in {sig, Unsigned},
         Set(w, [Idle EXCEPT !.pc = "verify", !.tx = sig.commission, !.sig = s]),
         UNCHANGED row
  PROVE  IInv'
  <1> DEFINE r == [Idle EXCEPT !.pc = "verify", !.tx = sig.commission, !.sig = s]
  <1>1. /\ r \in RunType /\ r.pc = "verify" /\ r.tx = sig.commission /\ r.sig = s
        /\ r.plan = Idle.plan /\ r.hand = Idle.hand
    <2>1. /\ Idle \in RunType /\ "verify" \in PCs /\ s \in Columns
          /\ sig.commission \in Signatures \cup {None}
      BY IdleType, UnsignedType DEF IInv, TypeOK, PCs, Columns
    <2> QED
      BY <2>1 DEF RunType
  <1> HIDE DEF r
  <1>2. ~Confirms(Idle.plan) /\ Idle.hand = {}
    BY DEF Idle, Confirms
  <1>3. Sound(w, r, claim, sig, chain, byHand)
    BY <1>1, <1>2 DEF Sound, Agreed
  <1> QED
    BY <1>1, <1>3, CalmStep DEF r

LEMMA AdvanceOK ==
  ASSUME IInv, NEW w \in Workers, Advance(w)
  PROVE  IInv'
  <1>1. UNCHANGED row
    BY DEF Advance
  <1>2. CASE \E n \in Decisions(status) : Set(w, Plan(<<n>>, Unsigned, FALSE))
    BY <1>1, <1>2, DecisionsOK, DecideStep, UnsignedType
  <1>3. CASE Set(w, [Idle EXCEPT !.pc = "permit"])
    BY <1>1, <1>3, PlaceStep
  <1>4. CASE Set(w, Plan(<<"release_failed">>, Unsigned, FALSE))
    BY <1>1, <1>4, DecideStep, UnsignedType DEF Statuses
  <1>5. CASE /\ Agreed(sig)
             /\ Set(w, [Idle EXCEPT !.pc = "verify", !.tx = sig.commission, !.sig = sig])
    BY <1>1, <1>5, VerifyStarts
  <1> QED
    BY <1>2, <1>3, <1>4, <1>5 DEF Advance

LEMMA VerifyOK ==
  ASSUME IInv, NEW w \in Workers, Verify(w)
  PROVE  IInv'
  <1>1. UNCHANGED row /\ run[w].pc = "verify"
    BY DEF Verify
  <1>2. /\ Filled(sig) /\ run[w].sig \in Columns /\ sig \in Columns
        /\ "signature" \notin byHand =>
             run[w].tx = sig.commission /\ Own(claim, sig, chain)
        /\ run[w].hand = {}
    BY <1>1 DEF IInv, TypeOK, Sound, Consistent
  <1>3. CASE /\ run[w].tx \in Txs => chain[run[w].tx] = "ok"
             /\ Set(w, Plan(<<"release_confirmed">>, run[w].sig, FALSE))
    <2>1. "signature" \notin byHand => Paid(sig, chain)
      BY <1>2, <1>3, UnsignedType DEF Paid, Own
    <2>2. Shown(sig, chain, byHand)
      BY <1>2, <2>1 DEF Shown
    <2>3. "release_confirmed" \in Statuses
      BY DEF Statuses, Released
    <2>4. run[w].sig # Unsigned /\ "signature" \notin byHand => run[w].sig = sig
      BY <1>1, <1>2 DEF IInv, Sound
    <2> QED
      BY <1>1, <1>2, <1>3, <2>2, <2>3, <2>4, DecideStep
  <1>4. CASE Set(w, Idle)
    BY <1>1, <1>4, IdleStep
  <1> QED
    BY <1>3, <1>4 DEF Verify

LEMMA OrchestrateOK ==
  ASSUME IInv, NEW w \in Workers, Orchestrate(w)
  PROVE  IInv'
  <1>1. UNCHANGED row
    BY DEF Orchestrate
  <1>2. {"ready_for_release", "release_submitted", "release_failed"} \subseteq Statuses
    BY DEF Statuses
  <1>3. CASE \/ Set(w, Plan(<<"ready_for_release">>, Unsigned, FALSE))
             \/ Set(w, Plan(<<"release_failed">>, Unsigned, FALSE))
    BY <1>1, <1>2, <1>3, DecideStep, UnsignedType
  <1>4. CASE Set(w, Plan(<<"release_submitted">>, sig, FALSE))
    <2>1. sig \in Columns
      BY DEF IInv, TypeOK
    <2> QED
      BY <1>1, <1>2, <1>4, <2>1, DecideStep
  <1>5. CASE Agreed(sig) /\ Set(w, [Idle EXCEPT !.pc = "verify", !.tx = sig.commission])
    <2>1. [Idle EXCEPT !.pc = "verify", !.tx = sig.commission]
            = [Idle EXCEPT !.pc = "verify", !.tx = sig.commission, !.sig = Unsigned]
      <3>1. Idle \in RunType /\ Idle.sig = Unsigned
        BY IdleType DEF Idle
      <3> QED
        BY <3>1 DEF RunType
    <2> QED
      BY <1>1, <1>5, <2>1, VerifyStarts
  <1> QED
    BY <1>3, <1>4, <1>5 DEF Orchestrate

LEMMA AllowedOK ==
  ASSUME NEW st, NEW n \in Allowed(st)
  PROVE  n \in Statuses
  BY DEF Allowed, Statuses, Recorded, Released

LEMMA AdminOK ==
  ASSUME IInv, NEW w \in Workers, NEW n \in Statuses, NEW s \in Columns,
         AdminTransition(w, n, s)
  PROVE  IInv' /\ sig' = sig
  <1> DEFINE p == Plan(<<n>>, s, FALSE)
             r == [p EXCEPT !.pc = "write", !.read = status, !.hand = Vouched(n, s)]
  <1>1. /\ UNCHANGED <<status, claim, sig, byHand, permit, chain, crashes>>
        /\ Set(w, r) /\ n \in Allowed(status) /\ acts' \in Nat
    BY DEF AdminTransition, IInv, TypeOK
  <1>2. /\ p \in RunType /\ p.plan = <<n>> /\ p.sig \in {s, Unsigned}
        /\ <<n>> # <<>> /\ Head(<<n>>) = n /\ Tail(<<n>>) = <<>>
        /\ n # "release_confirmed" => ~Confirms(<<n>>)
    BY <1>1, OneMove, PlanType
  <1>3. status \in Statuses /\ "write" \in PCs /\ Vouched(n, s) \in SUBSET Acts
    BY DEF IInv, TypeOK, PCs, Vouched
  <1>4. /\ s # Unsigned => "signature" \in Vouched(n, s)
        /\ n = "release_confirmed" => "confirmation" \in Vouched(n, s)
    BY DEF Vouched, Acts
  <1> HIDE DEF p
  <1>5. /\ r \in RunType /\ r.pc = "write" /\ r.read = status
        /\ r.plan = <<n>> /\ r.sig \in {s, Unsigned} /\ r.hand = Vouched(n, s)
    BY <1>2, <1>3 DEF RunType
  <1> HIDE DEF r
  <1>6. Sound(w, r, claim, sig, chain, byHand)
    BY <1>1, <1>2, <1>4, <1>5 DEF Sound
  <1>7. \A v \in Workers : v # w => Sound(v, run[v], claim, sig, chain, byHand)
    BY DEF IInv
  <1>8. /\ run' \in [Workers -> RunType]
        /\ \A v \in Workers : Sound(v, run'[v], claim', sig', chain', byHand')
    BY <1>1, <1>5, <1>6, <1>7, RunStep
  <1>9. TypeOK'
    BY <1>1, <1>8 DEF IInv, TypeOK, RunType
  <1> QED
    BY <1>1, <1>8, <1>9 DEF IInv, PermitIsSpentOnce

\* The requests that decide on one transition and never confirm.
LEMMA FixedPlans ==
  ASSUME IInv, NEW w \in Workers,
         RecoverWallets(w) \/ RetryRelease(w) \/ RefuseRelease(w)
  PROVE  IInv'
  <1>1. PICK n \in {"authorized", "manual_review", "ready_for_release",
                   "release_failed"} :
          Set(w, Plan(<<n>>, Unsigned, FALSE)) /\ UNCHANGED row
    BY DEF RecoverWallets, RetryRelease, RefuseRelease, Fail
  <1>2. n \in Statuses /\ n # "release_confirmed"
    BY DEF Statuses
  <1> QED
    BY <1>1, <1>2, DecideStep, UnsignedType

LEMMA LookPermitOK ==
  ASSUME IInv, NEW w \in Workers, LookPermit(w)
  PROVE  IInv'
  <1>1. UNCHANGED row /\ run[w].pc = "permit"
    BY DEF LookPermit
  <1>2. CASE \E p \in Permits : Set(w, [run[w] EXCEPT !.pc = "claim", !.permit = p])
    <2>1. PICK p \in Permits : Set(w, [run[w] EXCEPT !.pc = "claim", !.permit = p])
      BY <1>2
    <2> DEFINE r == [run[w] EXCEPT !.pc = "claim", !.permit = p]
    <2>2. /\ r \in RunType /\ r.pc = "claim" /\ r.permit = p
          /\ r.plan = run[w].plan /\ r.sig = run[w].sig /\ r.hand = run[w].hand
      BY RunTyped DEF RunType, PCs
    <2>3. Sound(w, run[w], claim, sig, chain, byHand) /\ run[w].hand = {}
      BY <1>1 DEF IInv, Sound
    <2> HIDE DEF r
    <2>4. Sound(w, r, claim, sig, chain, byHand)
      BY <2>2, <2>3 DEF Sound
    <2> QED
      BY <1>1, <2>1, <2>2, <2>4, CalmStep DEF r
  <1>3. CASE Set(w, Idle)
    BY <1>1, <1>3, IdleStep
  <1> QED
    BY <1>2, <1>3 DEF LookPermit

LEMMA ReconcileOK ==
  ASSUME IInv, NEW w \in Workers, Reconcile(w)
  PROVE  IInv'
  <1> DEFINE b == status \in {"release_failed", "ready_for_release", "release_submitted"}
             r == [Idle EXCEPT !.pc = "recover", !.plan = Recovery(status), !.again = b]
  <1>1. Set(w, r) /\ b \in BOOLEAN
    BY DEF Reconcile
  <1> HIDE DEF b
  <1>2. /\ Idle \in RunType /\ Idle.sig = Unsigned /\ Idle.hand = {}
        /\ "recover" \in PCs
    BY IdleType DEF Idle, PCs
  <1>3. Recovery(status) \in Seq(Statuses) /\ ~Confirms(Recovery(status))
    BY RecoveryOK
  <1>4. /\ r \in RunType /\ r.pc = "recover" /\ r.sig = Unsigned
        /\ r.plan = Recovery(status) /\ r.hand = {}
    BY <1>1, <1>2, <1>3 DEF RunType
  <1> HIDE DEF r
  <1>5. Sound(w, r, claim, sig, chain, byHand)
    BY <1>3, <1>4 DEF Sound
  <1> QED
    BY <1>1, <1>4, <1>5, CalmStep DEF r, Reconcile

LEMMA CrashOK ==
  ASSUME IInv, NEW w \in Workers, Crash(w)
  PROVE  IInv'
  <1>1. \A v \in Workers : v # w => Sound(v, run[v], claim, sig, chain, byHand)
    BY DEF IInv
  <1>2. /\ run' \in [Workers -> RunType]
        /\ \A v \in Workers : Sound(v, run'[v], claim, sig, chain, byHand)
    BY <1>1, IdleType, IdleSound, RunStep DEF Crash
  <1>3. TypeOK'
    BY <1>2 DEF IInv, TypeOK, Crash, RunType
  <1> QED
    BY <1>2, <1>3 DEF IInv, Crash, PermitIsSpentOnce

\* What is left of a plan, after a transition was made or rejected.
LEMMA RestOK ==
  ASSUME IInv, NEW w \in Workers, run[w].pc \in {"move", "write"}
  PROVE  Rest(w) \in RunType /\ Sound(w, Rest(w), claim, sig, chain, byHand)
  <1>1. /\ run[w].plan \in Seq(Statuses) /\ run[w].plan # <<>>
        /\ run[w].sig \in Columns /\ run[w].again \in BOOLEAN
        /\ Sound(w, run[w], claim, sig, chain, byHand)
    BY DEF IInv, TypeOK, Sound
  <1>2. /\ Tail(run[w].plan) \in Seq(Statuses)
        /\ Confirms(Tail(run[w].plan)) => Confirms(run[w].plan)
    BY <1>1, TailOK
  <1>3. CASE run[w].hand = {}
    <2>1. /\ run[w].sig # Unsigned /\ "signature" \notin byHand => run[w].sig = sig
          /\ Confirms(run[w].plan) => Shown(sig, chain, byHand)
      BY <1>1, <1>3 DEF Sound
    <2> QED
      BY <1>1, <1>2, <2>1, PlanType, PlanSound DEF Rest
  <1>4. CASE run[w].hand # {}
    <2>1. Tail(run[w].plan) = <<>>
      BY <1>1, <1>4 DEF Sound
    <2>2. Rest(w) = [Idle EXCEPT !.pc = IF run[w].again THEN "again" ELSE "idle"]
      BY <2>1 DEF Rest, Plan
    <2>3. /\ Rest(w) \in RunType /\ Rest(w).pc \in {"again", "idle"}
          /\ Rest(w).sig = Unsigned /\ Rest(w).plan = <<>> /\ Rest(w).hand = {}
      <3>1. /\ Idle \in RunType /\ {"again", "idle"} \subseteq PCs
            /\ Idle.sig = Unsigned /\ Idle.plan = <<>> /\ Idle.hand = {}
        BY IdleType DEF Idle, PCs
      <3> QED
        BY <2>2, <3>1 DEF RunType
    <2>4. ~Confirms(<<>>)
      BY DEF Confirms
    <2> QED
      BY <2>3, <2>4 DEF Sound
  <1> QED
    BY <1>3, <1>4

LEMMA MoveOK ==
  ASSUME IInv, NEW w \in Workers, Move(w)
  PROVE  IInv'
  <1>1. UNCHANGED row /\ run[w].pc = "move"
    BY DEF Move
  <1>2. CASE /\ Head(run[w].plan) \in Allowed(status)
             /\ Set(w, [run[w] EXCEPT !.pc = "write", !.read = status])
    <2> DEFINE r == [run[w] EXCEPT !.pc = "write", !.read = status]
    <2>1. /\ r \in RunType /\ r.pc = "write" /\ r.read = status
          /\ r.plan = run[w].plan /\ r.sig = run[w].sig /\ r.hand = run[w].hand
      <3>1. status \in Statuses
        BY DEF IInv, TypeOK
      <3> QED
        BY <3>1, RunTyped DEF RunType, PCs
    <2>2. Sound(w, run[w], claim, sig, chain, byHand) /\ run[w].hand = {}
      BY <1>1 DEF IInv, Sound
    <2> HIDE DEF r
    <2>3. Sound(w, r, claim, sig, chain, byHand)
      BY <1>1, <1>2, <2>1, <2>2 DEF Sound
    <2> QED
      BY <1>1, <1>2, <2>1, <2>3, CalmStep DEF r
  <1>3. CASE Set(w, Rest(w))
    BY <1>1, <1>3, RestOK, CalmStep
  <1> QED
    BY <1>2, <1>3 DEF Move

\* What a step does to the columns.
Kept == /\ sig.commission # None => sig'.commission # None
        /\ sig.payout # None => sig'.payout # None
        /\ "signature" \notin byHand' /\ sig # Unsigned => sig' = sig

\* The heart of SettledIsPaid: a compare-and-swap on the status that the
\* transition was validated on.
LEMMA WriteOK ==
  ASSUME IInv, NEW w \in Workers, Write(w)
  PROVE  IInv' /\ Kept
  <1> DEFINE r == run[w]
  <1>1. /\ r.pc = "write" /\ Set(w, Rest(w))
        /\ UNCHANGED <<claim, permit, chain, crashes, acts>>
    BY DEF Write
  <1>2. /\ r.plan \in Seq(Statuses) /\ r.plan # <<>>
        /\ Head(r.plan) \in Allowed(r.read)
        /\ Sound(w, r, claim, sig, chain, byHand)
        /\ Consistent(status, claim, sig, chain, byHand)
        /\ r.sig \in Columns /\ sig \in Columns
        /\ r.hand \subseteq Acts /\ byHand \subseteq Acts
        /\ status \in Statuses
    BY <1>1 DEF IInv, TypeOK, Sound
  <1>3. /\ Head(r.plan) \in Statuses
        /\ Head(r.plan) = "release_confirmed" => Confirms(r.plan)
    BY <1>2, TailOK
  <1>4. CASE status # r.read
    <2>1. UNCHANGED row
      BY <1>1, <1>4 DEF Write, row
    <2> QED
      BY <1>1, <2>1, RestOK, CalmStep DEF row, Kept
  <1>5. CASE status = r.read
    <2>1. /\ status' = Head(r.plan) /\ sig' = Preferred(r.sig, sig)
          /\ byHand' = byHand \cup r.hand
      BY <1>5 DEF Write
    <2>2. /\ sig' \in Columns /\ byHand' \subseteq Acts
          /\ sig.commission # None => sig'.commission # None
          /\ sig.payout # None => sig'.payout # None
          /\ Filled(sig) => Filled(sig')
      BY <1>2, <2>1, PreferredOK
    <2>3. "signature" \notin byHand' => sig' = sig
      <3>1. ASSUME "signature" \notin byHand'
            PROVE  r.sig = Unsigned \/ r.sig = sig
        BY <1>2, <2>1, <3>1 DEF Sound
      <3> QED
        BY <1>2, <2>1, <3>1, PreferredOK
    <2>4. Shown(sig, chain, byHand) => Shown(sig', chain, byHand')
      BY <2>1, <2>2, <2>3 DEF Shown
    <2>5. ASSUME NEW v, NEW x, Sound(v, x, claim, sig, chain, byHand)
          PROVE  Sound(v, x, claim, sig', chain, byHand')
      BY <2>1, <2>2, <2>3, <2>5, FrameWrite
    <2>6. \A v \in Workers : v # w => Sound(v, run[v], claim', sig', chain', byHand')
      BY <1>1, <2>5 DEF IInv
    <2>7. Sound(w, Rest(w), claim', sig', chain', byHand')
      BY <1>1, <2>5, RestOK
    <2>8. /\ run' \in [Workers -> RunType]
          /\ \A v \in Workers : Sound(v, run'[v], claim', sig', chain', byHand')
      BY <1>1, <2>6, <2>7, RestOK, RunStep
    <2>9. status' \in Released /\ "confirmation" \notin byHand'
            => Shown(sig', chain, byHand')
      <3>1. SUFFICES ASSUME status' \in Released, "confirmation" \notin byHand'
                     PROVE  Shown(sig, chain, byHand)
        BY <2>4
      <3>2. CASE status' = "release_confirmed"
        BY <1>2, <1>3, <2>1, <3>1, <3>2 DEF Sound
      <3>3. CASE status' = "settled"
        <4>1. status \in Released
          BY <1>2, <1>5, <2>1, <3>3, SettledFromConfirmed DEF Released
        <4> QED
          BY <1>2, <2>1, <3>1, <4>1 DEF Consistent
      <3> QED
        BY <3>1, <3>2, <3>3 DEF Released
    <2>10. Consistent(status', claim, sig', chain, byHand')
      <3>1. "signature" \notin byHand' => Own(claim, sig', chain)
        BY <1>2, <2>1, <2>3 DEF Consistent
      <3> QED
        BY <1>2, <2>2, <2>9, <3>1 DEF Consistent
    <2>11. TypeOK'
      BY <1>1, <1>3, <2>1, <2>2, <2>8 DEF IInv, TypeOK, RunType
    <2> QED
      BY <1>1, <2>2, <2>3, <2>8, <2>10, <2>11 DEF IInv, PermitIsSpentOnce, Kept
  <1> QED
    BY <1>4, <1>5

LEMMA PermitsOK ==
  ASSUME IInv, NEW p \in Permits, IssuePermit(p) \/ ExpirePermit(p)
  PROVE  IInv'
  <1>1. PICK x \in {"issued", "expired"} :
          permit' = [permit EXCEPT ![p] = x] /\ permit[p] # "claimed"
    BY DEF IssuePermit, ExpirePermit
  <1>2. /\ permit' \in [Permits -> {"none", "issued", "claimed", "expired"}]
        /\ \A q \in Permits : permit'[q] = "claimed" <=> permit[q] = "claimed"
    BY <1>1 DEF IInv, TypeOK
  <1>3. UNCHANGED <<status, byHand, claim, sig, chain, run, crashes, acts>>
    BY DEF IssuePermit, ExpirePermit
  <1> QED
    BY <1>2, <1>3 DEF IInv, TypeOK, PermitIsSpentOnce

\* The signature that the adapter answers with is the code's, if there is one.
LEMMA ExistingOK ==
  ASSUME IInv, sig # Unsigned
  PROVE  Existing \in Columns /\ ("signature" \notin byHand => Existing = sig)
  <1> DEFINE x == IF sig.commission # None THEN sig.commission ELSE sig.payout
  <1>1. /\ sig \in Columns /\ x \in Signatures \cup {None}
        /\ sig.commission \in Signatures \cup {None}
        /\ sig = [commission |-> sig.commission, payout |-> sig.payout]
    BY DEF IInv, TypeOK, Columns
  <1>2. "signature" \notin byHand => sig.commission = sig.payout
    BY DEF IInv, Consistent, Own
  <1>3. Both(x) \in Columns
    BY <1>1, BothType
  <1>4. "signature" \notin byHand => Both(x) = sig
    BY <1>1, <1>2 DEF Both
  <1>5. Existing = Preferred(sig, Both(x))
    BY DEF Existing
  <1> HIDE DEF x
  <1> QED
    BY <1>1, <1>3, <1>4, <1>5, PreferredOK

LEMMA ClaimOK ==
  ASSUME IInv, NEW w \in Workers, ClaimExecution(w)
  PROVE  IInv' /\ sig' = sig
  <1>1. UNCHANGED <<status, byHand, sig, chain, crashes, acts>> /\ run[w].pc = "claim"
    BY DEF ClaimExecution
  <1>2. CASE /\ sig # Unsigned
             /\ Set(w, Plan(<<"release_submitted">>, Existing, FALSE))
             /\ UNCHANGED <<claim, permit>>
    <2>1. Existing \in Columns /\ ("signature" \notin byHand => Existing = sig)
      BY <1>2, ExistingOK
    <2> QED
      BY <1>1, <1>2, <2>1, DecideStep DEF Statuses, row
  <1>3. CASE Fail(w) /\ UNCHANGED <<claim, permit>>
    BY <1>1, <1>3, DecideStep, UnsignedType DEF Statuses, row, Fail
  <1>4. CASE /\ sig = Unsigned /\ Claimable(w)
             /\ permit' = [permit EXCEPT ![run[w].permit] = "claimed"]
             /\ claim' = [state |-> "claimed", token |-> w]
             /\ Set(w, [Idle EXCEPT !.pc = "send"])
    <2> DEFINE r == [Idle EXCEPT !.pc = "send"]
    <2>1. claim.state = "unclaimed" /\ run[w].permit \in Permits /\ Silent(chain)
      BY <1>1, <1>4 DEF Claimable, IInv, Sound, Consistent
    <2>2. r \in RunType /\ Sound(w, r, claim', sig', chain', byHand')
      <3>1. /\ r \in RunType /\ r.pc = "send" /\ r.sig = Unsigned /\ r.plan = <<>>
            /\ r.hand = {}
        <4>1. /\ Idle \in RunType /\ Idle.sig = Unsigned /\ Idle.plan = <<>>
              /\ Idle.hand = {} /\ "send" \in PCs
          BY IdleType DEF Idle, PCs
        <4> QED
          BY <4>1 DEF RunType
      <3> HIDE DEF r
      <3> QED
        BY <1>1, <1>4, <2>1, <3>1 DEF Sound, Confirms
    <2>3. \A v \in Workers : v # w => Sound(v, run[v], claim', sig', chain', byHand')
      BY <1>1, <1>4, <2>1, FrameClaim DEF IInv
    <2>4. /\ run' \in [Workers -> RunType]
          /\ \A v \in Workers : Sound(v, run'[v], claim', sig', chain', byHand')
      BY <1>4, <2>2, <2>3, RunStep
    <2>5. /\ permit' \in [Permits -> {"none", "issued", "claimed", "expired"}]
          /\ PermitIsSpentOnce'
      BY <1>4, <2>1 DEF IInv, TypeOK, PermitIsSpentOnce
    <2>6. TypeOK'
      BY <1>1, <1>4, <2>4, <2>5 DEF IInv, TypeOK, RunType
    <2> QED
      BY <1>1, <1>4, <2>1, <2>4, <2>5, <2>6 DEF IInv, Consistent, Own
  <1> QED
    BY <1>1, <1>2, <1>3, <1>4 DEF ClaimExecution

\* The heart of AtMostOneBroadcast: whoever is about to send holds the claim,
\* and nobody has sent before it.
LEMMA SendOK ==
  ASSUME IInv, NEW w \in Workers, Send(w)
  PROVE  IInv' /\ sig' = sig
  <1>1. /\ UNCHANGED <<status, byHand, claim, sig, permit, crashes, acts>>
        /\ run[w].pc = "send"
    BY DEF Send
  <1>2. /\ claim.state = "claimed" /\ claim.token = w /\ Silent(chain)
        /\ Sound(w, run[w], claim, sig, chain, byHand) /\ run[w].hand = {}
    BY <1>1 DEF IInv, Sound
  <1>3. CASE UNCHANGED chain /\ Set(w, [run[w] EXCEPT !.pc = "unknown"])
    <2> DEFINE r == [run[w] EXCEPT !.pc = "unknown"]
    <2>1. /\ r \in RunType /\ r.pc = "unknown" /\ r.plan = run[w].plan
          /\ r.sig = run[w].sig /\ r.hand = run[w].hand
      BY RunTyped DEF RunType, PCs
    <2> HIDE DEF r
    <2>2. Sound(w, r, claim, sig, chain, byHand)
      BY <1>2, <2>1 DEF Sound
    <2> QED
      BY <1>1, <1>3, <2>1, <2>2, CalmStep DEF r, row
  <1>4. ASSUME NEW t \in Txs, chain' = [chain EXCEPT ![t] = "sent"],
               NEW r \in RunType, Set(w, r), r.pc \in {"record", "unknown"},
               r.pc = "record" => r.tx = t,
               r.plan = run[w].plan, r.sig = run[w].sig, r.hand = run[w].hand
        PROVE  IInv' /\ sig' = sig
    <2>1. /\ chain \in ChainType /\ chain' \in ChainType /\ chain'[t] = "sent"
          /\ \A u \in Txs : u # t => chain'[u] = "none"
      BY <1>2, <1>4 DEF IInv, TypeOK, ChainType, Silent
    <2>2. Sound(w, r, claim', sig', chain', byHand')
      <3>1. Shown(sig, chain, byHand) => Shown(sig, chain', byHand)
        BY <1>2 DEF Shown, Paid, Silent
      <3> QED
        BY <1>1, <1>2, <1>4, <2>1, <3>1 DEF Sound
    <2>3. ASSUME NEW v \in Workers, v # w
          PROVE  Sound(v, run[v], claim', sig', chain', byHand')
      <3>1. run[v] \in RunType /\ Sound(v, run[v], claim, sig, chain, byHand)
        BY DEF IInv, TypeOK, RunType
      <3> QED
        BY <1>1, <1>2, <1>4, <2>1, <2>3, <3>1, FrameSend DEF Silent
    <2>4. /\ run' \in [Workers -> RunType]
          /\ \A v \in Workers : Sound(v, run'[v], claim', sig', chain', byHand')
      BY <1>4, <2>2, <2>3, RunStep
    <2>5. TypeOK'
      BY <1>1, <2>1, <2>4 DEF IInv, TypeOK, RunType, ChainType
    <2>6. Consistent(status, claim, sig, chain', byHand)
      <3>1. Shown(sig, chain, byHand) => Shown(sig, chain', byHand)
        BY <1>2 DEF Shown, Paid, Silent
      <3>2. Own(claim, sig, chain) => Own(claim, sig, chain')
        BY <1>2 DEF Own, Silent
      <3> QED
        BY <1>2, <2>1, <3>1, <3>2 DEF IInv, Consistent
    <2> QED
      BY <1>1, <2>4, <2>5, <2>6 DEF IInv, PermitIsSpentOnce
  <1>5. ASSUME NEW t \in Txs
        PROVE  LET r == [run[w] EXCEPT !.pc = "record", !.tx = t]
                   u == [run[w] EXCEPT !.pc = "unknown"]
               IN  /\ r \in RunType /\ r.pc = "record" /\ r.tx = t
                   /\ r.plan = run[w].plan /\ r.sig = run[w].sig
                   /\ r.hand = run[w].hand /\ u.hand = run[w].hand
                   /\ u \in RunType /\ u.pc = "unknown"
                   /\ u.plan = run[w].plan /\ u.sig = run[w].sig
    <2>1. t \in Signatures /\ {"record", "unknown"} \subseteq PCs
      BY DEF Signatures, PCs
    <2> QED
      BY <2>1, RunTyped DEF RunType
  <1>6. CASE \E t \in Txs :
               /\ chain' = [chain EXCEPT ![t] = "sent"]
               /\ \/ Set(w, [run[w] EXCEPT !.pc = "record", !.tx = t])
                  \/ Set(w, [run[w] EXCEPT !.pc = "unknown"])
    BY <1>4, <1>5, <1>6
  <1> QED
    BY <1>1, <1>3, <1>6 DEF Send

\* The signature is stored: by the request that holds the claim, or by the
\* supervisor when the claim is unknown.
LEMMA SubmitStep ==
  ASSUME IInv, NEW w \in Workers, NEW t \in Txs, chain[t] # "none", sig = Unsigned,
         claim.state # "unclaimed", claim.state = "claimed" => claim.token = w,
         Submitted(t), UNCHANGED <<status, byHand, permit, chain, crashes, acts>>,
         NEW r \in RunType, Set(w, r), Sound(w, r, claim', Both(t), chain, byHand)
  PROVE  IInv' /\ Kept
  <1>1. /\ sig' = Both(t) /\ claim' = [claim EXCEPT !.state = "broadcast_submitted"]
        /\ claim \in ClaimType /\ claim' \in ClaimType
        /\ claim'.state = "broadcast_submitted"
    BY DEF Submitted, IInv, TypeOK, ClaimType
  <1>2. ASSUME NEW v \in Workers, v # w
        PROVE  Sound(v, run[v], claim', sig', chain', byHand')
    <2>1. run[v] \in RunType /\ Sound(v, run[v], claim, Unsigned, chain, byHand)
      BY DEF IInv, TypeOK, RunType
    <2> QED
      BY <1>1, <1>2, <2>1, FrameSubmit
  <1>3. /\ run' \in [Workers -> RunType]
        /\ \A v \in Workers : Sound(v, run'[v], claim', sig', chain', byHand')
    BY <1>1, <1>2, RunStep
  <1>4. /\ Both(t) \in Columns /\ Filled(Both(t))
        /\ Both(t).commission = t /\ Both(t).payout = t /\ Both(t) # Unsigned
    BY ConstantsAssumption, BothType DEF Signatures
  <1>5. TypeOK'
    BY <1>1, <1>3, <1>4 DEF IInv, TypeOK, RunType, ClaimType
  <1>6. Consistent(status, claim', sig', chain, byHand)
    <2>1. Own(claim', sig', chain)
      BY <1>1, <1>4 DEF Own
    <2>2. ~Shown(sig, chain, byHand)
      BY UnsignedType DEF Shown
    <2> QED
      BY <1>1, <1>4, <2>1, <2>2 DEF IInv, Consistent
  <1>7. Kept
    BY UnsignedType DEF Kept, Unsigned, Both
  <1> QED
    BY <1>1, <1>3, <1>5, <1>6, <1>7 DEF IInv, PermitIsSpentOnce

LEMMA RecordOK ==
  ASSUME IInv, NEW w \in Workers, Record(w)
  PROVE  IInv' /\ Kept
  <1> DEFINE t == run[w].tx
             r == Plan(<<"release_submitted">>, Both(t), FALSE)
  <1>1. /\ run[w].pc = "record" /\ Owns(w) /\ sig = Unsigned
        /\ Submitted(t) /\ Set(w, r)
        /\ UNCHANGED <<status, byHand, permit, chain, crashes, acts>>
    BY DEF Record
  <1>2. /\ t \in Txs /\ chain[t] # "none"
        /\ claim.state = "claimed" /\ claim.token = w
    BY <1>1 DEF IInv, Sound, Owns
  <1>3. "release_submitted" \in Statuses /\ Both(t) \in Columns
    BY <1>2, BothType DEF Statuses, Signatures
  <1>4. /\ r \in RunType
        /\ Sound(w, r, claim', Both(t), chain, byHand)
    BY <1>3, OneMove, PlanType, PlanSound
  <1> HIDE DEF r
  <1> QED
    BY <1>1, <1>2, <1>4, SubmitStep

LEMMA RecordFailsOK ==
  ASSUME IInv, NEW w \in Workers, RecordFails(w)
  PROVE  IInv' /\ Kept
  <1> DEFINE r == [run[w] EXCEPT !.pc = "unknown"]
  <1>1. /\ run[w].pc = "record" /\ Set(w, r)
        /\ UNCHANGED <<status, byHand, permit, chain, crashes, acts>>
    BY DEF RecordFails
  <1>2. /\ run[w].tx \in Txs /\ chain[run[w].tx] # "none"
        /\ claim.state = "claimed" /\ claim.token = w /\ run[w].hand = {}
        /\ Sound(w, run[w], claim, sig, chain, byHand)
    BY <1>1 DEF IInv, Sound
  <1>3. /\ r \in RunType /\ r.pc = "unknown" /\ r.plan = run[w].plan
        /\ r.sig = run[w].sig /\ r.hand = {}
    BY <1>2, RunTyped DEF RunType, PCs
  <1> HIDE DEF r
  <1>4. CASE sig = Unsigned /\ Submitted(run[w].tx)
    <2>1. claim'.state # "unclaimed" /\ claim'.token = w
      BY <1>2, <1>4 DEF Submitted, IInv, TypeOK
    <2>2. ~Shown(sig, chain, byHand)
      BY <1>4, UnsignedType DEF Shown
    <2>3. Sound(w, r, claim', Both(run[w].tx), chain, byHand)
      BY <1>2, <1>3, <1>4, <2>1, <2>2 DEF Sound
    <2> QED
      BY <1>1, <1>2, <1>3, <1>4, <2>3, SubmitStep
  <1>5. CASE UNCHANGED <<claim, sig>>
    <2>1. Sound(w, r, claim, sig, chain, byHand)
      BY <1>2, <1>3 DEF Sound
    <2> QED
      BY <1>1, <1>3, <1>5, <2>1, CalmStep DEF row, Kept
  <1> QED
    BY <1>4, <1>5 DEF RecordFails

LEMMA MarkOK ==
  ASSUME IInv, NEW w \in Workers, MarkUnknown(w)
  PROVE  IInv'
  <1> DEFINE r == Plan(<<"release_failed">>, Unsigned, FALSE)
  <1>1. /\ run[w].pc = "unknown" /\ Set(w, r)
        /\ UNCHANGED <<status, byHand, sig, permit, chain, crashes, acts>>
    BY DEF MarkUnknown, Fail
  <1>2. "release_failed" \in Statuses
    BY DEF Statuses
  <1>3. r \in RunType /\ \A c : Sound(w, r, c, sig, chain, byHand)
    BY <1>2, OneMove, PlanType, PlanSound, UnsignedType
  <1> HIDE DEF r
  <1>4. CASE UNCHANGED claim
    BY <1>1, <1>3, <1>4, CalmStep DEF row
  <1>5. CASE Owns(w) /\ claim' = [claim EXCEPT !.state = "broadcast_unknown"]
    <2>1. /\ claim.state = "claimed" /\ claim.token = w
          /\ claim \in ClaimType /\ claim' \in ClaimType
          /\ claim'.state = "broadcast_unknown"
      BY <1>5 DEF Owns, IInv, TypeOK, ClaimType
    <2>2. \A v \in Workers : v # w => Sound(v, run[v], claim', sig', chain', byHand')
      BY <1>1, <1>5, <2>1, FrameMark DEF IInv
    <2>3. /\ run' \in [Workers -> RunType]
          /\ \A v \in Workers : Sound(v, run'[v], claim', sig', chain', byHand')
      BY <1>1, <1>3, <2>2, RunStep
    <2>4. TypeOK'
      BY <1>1, <2>1, <2>3 DEF IInv, TypeOK, RunType, ClaimType
    <2>5. Consistent(status, claim', sig, chain, byHand)
      BY <2>1 DEF IInv, Consistent, Own
    <2> QED
      BY <1>1, <2>1, <2>3, <2>4, <2>5 DEF IInv, PermitIsSpentOnce
  <1> QED
    BY <1>4, <1>5 DEF MarkUnknown

LEMMA RecoverOK ==
  ASSUME IInv, NEW w \in Workers, Recover(w)
  PROVE  IInv' /\ Kept
  <1>1. /\ run[w].pc = "recover"
        /\ UNCHANGED <<status, byHand, permit, chain, crashes, acts>>
    BY DEF Recover
  <1>2. CASE UNCHANGED <<claim, sig>> /\ Set(w, Idle)
    BY <1>1, <1>2, IdleStep DEF row, Kept
  <1>3. CASE \E t \in Txs :
               /\ chain[t] = "ok" /\ claim.state = "broadcast_unknown"
               /\ sig = Unsigned /\ Submitted(t)
               /\ Set(w, Plan(run[w].plan, Both(t), run[w].again))
    <2>1. PICK t \in Txs :
               /\ chain[t] = "ok" /\ claim.state = "broadcast_unknown"
               /\ sig = Unsigned /\ Submitted(t)
               /\ Set(w, Plan(run[w].plan, Both(t), run[w].again))
      BY <1>3
    <2>2. run[w].plan \in Seq(Statuses) /\ run[w].again \in BOOLEAN
      BY DEF IInv, TypeOK
    <2>3. /\ Both(t) \in Columns /\ Filled(Both(t)) /\ Both(t).commission = t
      BY ConstantsAssumption, BothType DEF Signatures
    <2>4. Shown(Both(t), chain, byHand)
      BY <2>1, <2>3 DEF Shown, Paid
    <2>5. /\ Plan(run[w].plan, Both(t), run[w].again) \in RunType
          /\ Sound(w, Plan(run[w].plan, Both(t), run[w].again), claim', Both(t), chain, byHand)
      BY <2>2, <2>3, <2>4, PlanType, PlanSound
    <2> QED
      BY <1>1, <2>1, <2>5, SubmitStep
  <1> QED
    BY <1>2, <1>3 DEF Recover

LEMMA LandOK ==
  ASSUME IInv, NEW t \in Txs, Land(t)
  PROVE  IInv'
  <1>1. PICK x \in {"ok", "err"} :
          chain[t] = "sent" /\ chain' = [chain EXCEPT ![t] = x]
    BY DEF Land
  <1>2. UNCHANGED <<status, byHand, claim, sig, permit, run, crashes, acts>>
    BY DEF Land
  <1>3. chain \in ChainType /\ chain' \in ChainType
    BY <1>1 DEF IInv, TypeOK, ChainType
  <1>4. \A v \in Workers : Sound(v, run[v], claim, sig, chain', byHand)
    BY <1>1, <1>3, FrameLand DEF IInv
  <1>5. Consistent(status, claim, sig, chain', byHand)
    <2>1. \A u \in Txs : chain'[u] # "none" <=> chain[u] # "none"
      BY <1>1, <1>3 DEF ChainType
    <2>2. Shown(sig, chain, byHand) => Shown(sig, chain', byHand)
      BY <1>1, <1>3 DEF Shown, Paid, ChainType
    <2>3. Own(claim, sig, chain) => Own(claim, sig, chain')
      BY <2>1 DEF Own
    <2> QED
      BY <2>1, <2>2, <2>3 DEF IInv, Consistent, Silent
  <1>6. TypeOK'
    BY <1>2, <1>3 DEF IInv, TypeOK, ChainType
  <1> QED
    BY <1>2, <1>4, <1>5, <1>6 DEF IInv, PermitIsSpentOnce

-----------------------------------------------------------------------------
(* The theorems.                                                            *)

LEMMA StepOK ==
  ASSUME IInv, NEW w \in Workers, Step(w)
  PROVE  IInv' /\ Kept
  <1>1. CASE Advance(w)
    BY <1>1, AdvanceOK DEF Advance, row, Kept
  <1>2. CASE GiveUp(w) \/ RecoverNothing(w)
    BY <1>2, IdleStep DEF GiveUp, RecoverNothing, row, Kept
  <1>3. CASE Verify(w)
    BY <1>3, VerifyOK DEF Verify, row, Kept
  <1>4. CASE Move(w)
    BY <1>4, MoveOK DEF Move, row, Kept
  <1>5. CASE Write(w)
    BY <1>5, WriteOK
  <1>6. CASE LookPermit(w)
    BY <1>6, LookPermitOK DEF LookPermit, row, Kept
  <1>7. CASE RefuseRelease(w)
    BY <1>7, FixedPlans DEF RefuseRelease, row, Kept
  <1>8. CASE ClaimExecution(w)
    BY <1>8, ClaimOK DEF Kept
  <1>9. CASE Send(w)
    BY <1>9, SendOK DEF Kept
  <1>10. CASE Record(w)
    BY <1>10, RecordOK
  <1>11. CASE RecordFails(w)
    BY <1>11, RecordFailsOK
  <1>12. CASE MarkUnknown(w)
    BY <1>12, MarkOK DEF MarkUnknown, Kept
  <1>13. CASE Recover(w)
    BY <1>13, RecoverOK
  <1> QED
    BY <1>1, <1>2, <1>3, <1>4, <1>5, <1>6, <1>7, <1>8, <1>9, <1>10, <1>11,
       <1>12, <1>13 DEF Step

LEMMA RequestOK ==
  ASSUME IInv, NEW w \in Workers, Request(w)
  PROVE  IInv' /\ sig' = sig
  <1>1. CASE Advance(w)
    BY <1>1, AdvanceOK DEF Advance, row
  <1>2. CASE Orchestrate(w)
    BY <1>2, OrchestrateOK DEF Orchestrate, row
  <1>3. CASE RecoverWallets(w) \/ RetryRelease(w)
    BY <1>3, FixedPlans DEF RecoverWallets, RetryRelease, row
  <1>4. CASE Reconcile(w)
    BY <1>4, ReconcileOK DEF Reconcile, row
  <1>5. CASE \E n \in Statuses :
               \E s \in [commission : Typed \cup {None}, payout : Typed \cup {None}] :
                 AdminTransition(w, n, s)
    <2>1. [commission : Typed \cup {None}, payout : Typed \cup {None}] \subseteq Columns
      BY DEF Columns, Signatures
    <2> QED
      BY <1>5, <2>1, AdminOK
  <1> QED
    BY <1>1, <1>2, <1>3, <1>4, <1>5 DEF Request

LEMMA NextOK ==
  ASSUME IInv, [Next]_vars
  PROVE  IInv' /\ Kept
  <1>1. ASSUME NEW w \in Workers, Crash(w)
        PROVE  IInv' /\ sig' = sig
    BY <1>1, CrashOK DEF Crash
  <1>2. ASSUME NEW p \in Permits, IssuePermit(p) \/ ExpirePermit(p)
        PROVE  IInv' /\ sig' = sig
    BY <1>2, PermitsOK DEF IssuePermit, ExpirePermit
  <1>3. ASSUME NEW t \in Txs, Land(t)
        PROVE  IInv' /\ sig' = sig
    BY <1>3, LandOK DEF Land
  <1>4. CASE UNCHANGED vars
    BY <1>4 DEF vars, IInv, TypeOK, PermitIsSpentOnce, Kept
  <1> QED
    BY <1>1, <1>2, <1>3, <1>4, StepOK, RequestOK DEF Next, Kept

LEMMA InitOK == Init => IInv
  <1> SUFFICES ASSUME Init PROVE IInv
    OBVIOUS
  <1>1. TypeOK
    <2>1. run \in [Workers -> RunType]
      BY IdleType DEF Init
    <2> QED
      BY <2>1, UnsignedType DEF Init, TypeOK, RunType, Statuses
  <1>2. \A w \in Workers : Sound(w, run[w], claim, sig, chain, byHand)
    BY IdleSound DEF Init
  <1>3. Consistent(status, claim, sig, chain, byHand)
    BY UnsignedType, BothType DEF Init, Consistent, Silent, Recorded, Released, Own, Unsigned
  <1>4. PermitIsSpentOnce
    BY DEF Init, PermitIsSpentOnce
  <1> QED
    BY <1>1, <1>2, <1>3, <1>4 DEF IInv

THEOREM Invariance == Spec => []IInv
  <1>1. IInv /\ [Next]_vars => IInv'
    BY NextOK
  <1> QED
    BY <1>1, InitOK, PTL DEF Spec

\* The states of the model are those the tables can hold.
THEOREM TypeCorrect == Spec => []TypeOK
  <1>1. IInv => TypeOK
    BY DEF IInv
  <1> QED
    BY <1>1, Invariance, PTL

\* However many requests race, crash or are retried, and whatever they read,
\* claim_settlement_execution_db lets one transaction release the escrow.
THEOREM OneBroadcast == Spec => []AtMostOneBroadcast
  <1>1. IInv => AtMostOneBroadcast
    BY DEF IInv, Consistent, AtMostOneBroadcast
  <1> QED
    BY <1>1, Invariance, PTL

\* The claim consumes exactly one permit, and nothing else does.
THEOREM OnePermit == Spec => []PermitIsSpentOnce
  <1>1. IInv => PermitIsSpentOnce
    BY DEF IInv
  <1> QED
    BY <1>1, Invariance, PTL

\* One permit releases the escrow, once, whatever requests race or crash.
THEOREM OneRelease == Spec => []ReleasedOnce
  <1>1. AtMostOneBroadcast /\ PermitIsSpentOnce => ReleasedOnce
    BY DEF ReleasedOnce
  <1> QED
    BY <1>1, OneBroadcast, OnePermit, PTL

\* The claim is broadcast_submitted only with both columns filled, and exactly
\* when they are as long as administrators pass no signature.
THEOREM SignedSubmitted == Spec => []SignedIsSubmitted
  <1>1. IInv => SignedIsSubmitted
    BY DEF IInv, Consistent, Own, SignedIsSubmitted
  <1> QED
    BY <1>1, Invariance, PTL

\* No stale decision confirms or settles what the chain has not paid; a release
\* that no administrator confirmed has its signatures on record.
THEOREM SettledPaid == Spec => []SettledIsPaid
  <1>1. IInv => SettledIsPaid
    BY DEF IInv, Consistent, SettledIsPaid, Shown, Paid
  <1> QED
    BY <1>1, Invariance, PTL

\* Claim, signatures and status are true of the chain as far as the code writes
\* them, whatever requests race or crash.
THEOREM ReleaseRecorded == Spec => []ReleaseIsRecorded
  <1>1. SignedIsSubmitted /\ SettledIsPaid => ReleaseIsRecorded
    BY DEF ReleaseIsRecorded
  <1> QED
    BY <1>1, SignedSubmitted, SettledPaid, PTL

\* No step clears a signature that is stored, and none replaces it as long as
\* administrators pass no signature.
THEOREM SignatureFinal == Spec => SignatureIsFinal
  <1>1. IInv /\ [Next]_vars =>
          [/\ sig.commission # None => sig'.commission # None
           /\ sig.payout # None => sig'.payout # None
           /\ "signature" \notin byHand' /\ sig # Unsigned => sig' = sig]_vars
    BY NextOK DEF Kept
  <1> QED
    BY <1>1, Invariance, PTL DEF Spec, SignatureIsFinal
=============================================================================
