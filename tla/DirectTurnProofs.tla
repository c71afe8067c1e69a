-------------------------- MODULE DirectTurnProofs --------------------------
(***************************************************************************)
(* Proofs about DirectTurn, for every set of calls, every number of turns  *)
(* and every capacity of the prompts in the session file.                  *)
(*                                                                         *)
(* What a call of the current turn looks like depends on where the task    *)
(* is: the inductive invariant has one part per stage of a turn, and the   *)
(* calls of earlier turns stay answered as long as the run lives.          *)
(***************************************************************************)
EXTENDS DirectTurn, SequenceTheorems, TLAPS

Injective(s) == \A i, j \in 1 .. Len(s) : s[i] = s[j] => i = j

(* The session file and the model's context follow the outcome.            *)
Records ==
  \A c \in Call :
    /\ outcome[c] \in {None, "open"} => starts[c] = 0
    /\ record[c] # None => record[c] = outcome[c]
    /\ shown[c] # None => record[c] # None
    /\ InSeq(c, batch) => outcome[c] # None

Answered(c) == outcome[c] \in Final /\ record[c] = outcome[c] /\ shown[c] # None

Earlier ==
  phase \notin Over =>
    \A c \in Call : ~InSeq(c, batch) /\ outcome[c] # None => Answered(c)

(* Until the approvals begin, every call of the turn is open.              *)
Judging ==
  /\ phase \in {"model", "hooks"} =>
       \A c \in Call : InSeq(c, batch) => outcome[c] = "open"
  /\ phase = "hooks" => refused = {}

(* From the guardrails on, every call of the turn has a verdict.           *)
Verdicts ==
  phase \in {"hooks", "asking", "waiting", "reporting"} =>
    \A c \in Call : InSeq(c, batch) => verdict[c] # None

(* Where a call stands that the user has to approve: still to be asked     *)
(* for, refused, or approved.                                              *)
Asked(c) ==
  \/ InSeq(c, asks) /\ c \notin refused /\ outcome[c] = "open"
  \/ ~InSeq(c, asks) /\ c \in refused /\ outcome[c] = "denied"
  \/ ~InSeq(c, asks) /\ c \notin refused /\ outcome[c] = "open" /\ prompt[c] = "approved"

Approvals ==
  phase \in {"asking", "waiting", "reporting"} =>
    /\ Injective(asks)
    /\ \A c \in Call : c \in refused \/ InSeq(c, asks) =>
         InSeq(c, batch) /\ verdict[c] = "user_approval"
    /\ \A c \in Call : InSeq(c, batch) =>
         /\ verdict[c] = "run" => outcome[c] = "open"
         /\ verdict[c] = "auto_reply" => outcome[c] \in {"open", "denied"}
         /\ verdict[c] = "user_approval" => Asked(c)
    /\ phase = "waiting" => asks # <<>>
    /\ phase = "reporting" => asks = <<>>

Allowed(c) ==
  verdict[c] = "run" \/ (verdict[c] = "user_approval" /\ prompt[c] = "approved")

(* What has to run is allowed to, and is open but for the tool under way.  *)
ToRun ==
  /\ Injective(left)
  /\ \A c \in Call : InSeq(c, left) =>
       /\ InSeq(c, batch)
       /\ Allowed(c)
       /\ outcome[c] = IF phase = "tool" /\ c = Head(left) THEN "started" ELSE "open"
  /\ phase = "tool" => left # <<>>

(* What does not, has ended, and the model knows or is about to.           *)
HasRun ==
  \A c \in Call : InSeq(c, batch) /\ ~InSeq(c, left) =>
    outcome[c] \in Final /\ record[c] = outcome[c] /\ (shown[c] # None \/ InSeq(c, ran))

(* The lists the answers are paired from.                                  *)
Noting ==
  /\ Len(ran) <= Len(results)
  /\ \A c \in Call : InSeq(c, ran) => record[c] # None
  /\ ~slipped => \A i \in 1 .. Len(ran) : results[i] = <<ran[i], record[ran[i]]>>
  /\ ~slipped => Len(results) = Len(ran)

Running == phase \in {"starting", "tool"} => ToRun /\ HasRun /\ Noting

Answering ==
  phase = "post hooks" => \A c \in Call : InSeq(c, batch) => Answered(c)

Inv ==
  /\ TypeOK
  /\ StartedWasAllowed
  /\ PromptsAgree
  /\ OwnResult
  /\ Records
  /\ Earlier
  /\ Judging
  /\ Verdicts
  /\ Approvals
  /\ Running
  /\ Answering

-----------------------------------------------------------------------------
(* Sequences of calls *)

LEMMA NotInEmpty == \A x : ~InSeq(x, <<>>)
BY DEF InSeq

(* What is in a sequence with one element more.                            *)
LEMMA InAppend ==
  ASSUME NEW S, NEW s \in Seq(S), NEW e \in S
  PROVE  /\ Append(s, e) \in Seq(S) /\ Append(s, e) # <<>>
         /\ Len(Append(s, e)) = Len(s) + 1
         /\ \A x : InSeq(x, Append(s, e)) <=> InSeq(x, s) \/ x = e
<1>1. Len(Append(s, e)) = Len(s) + 1 /\ Append(s, e)[Len(s) + 1] = e /\ Len(s) \in Nat
  OBVIOUS
<1>2. \A i \in 1 .. Len(s) : Append(s, e)[i] = s[i]
  OBVIOUS
<1>3. ASSUME NEW x PROVE InSeq(x, Append(s, e)) <=> InSeq(x, s) \/ x = e
  <2>1. ASSUME InSeq(x, s) PROVE InSeq(x, Append(s, e))
    BY <1>1, <1>2, <2>1 DEF InSeq
  <2>2. InSeq(e, Append(s, e))
    BY <1>1 DEF InSeq
  <2>3. ASSUME InSeq(x, Append(s, e)), x # e PROVE InSeq(x, s)
    BY <1>1, <1>2, <2>3 DEF InSeq
  <2> QED
    BY <2>1, <2>2, <2>3
<1> QED
  BY <1>1, <1>3

(* What is left of a sequence after its first element.                     *)
LEMMA InTail ==
  ASSUME NEW S, NEW s \in Seq(S), s # <<>>
  PROVE  /\ Head(s) \in S /\ Tail(s) \in Seq(S) /\ InSeq(Head(s), s)
         /\ \A x : InSeq(x, Tail(s)) => InSeq(x, s)
         /\ \A x : InSeq(x, s) => x = Head(s) \/ InSeq(x, Tail(s))
         /\ Injective(s) => Injective(Tail(s)) /\ ~InSeq(Head(s), Tail(s))
<1>1. /\ Head(s) = s[1] /\ Len(s) \in Nat /\ Len(s) >= 1
      /\ Tail(s) \in Seq(S) /\ Len(Tail(s)) = Len(s) - 1
      /\ \A i \in 1 .. Len(Tail(s)) : Tail(s)[i] = s[i + 1]
  OBVIOUS
<1>2. Head(s) \in S /\ InSeq(Head(s), s)
  BY <1>1 DEF InSeq
<1>3. ASSUME NEW x, InSeq(x, Tail(s)) PROVE InSeq(x, s)
  <2> PICK i \in 1 .. Len(Tail(s)) : Tail(s)[i] = x
    BY <1>3 DEF InSeq
  <2> i + 1 \in 1 .. Len(s) /\ s[i + 1] = x
    BY <1>1
  <2> QED
    BY DEF InSeq
<1>4. ASSUME NEW x, InSeq(x, s), x # Head(s) PROVE InSeq(x, Tail(s))
  <2> PICK i \in 1 .. Len(s) : s[i] = x
    BY <1>4 DEF InSeq
  <2> i - 1 \in 1 .. Len(Tail(s)) /\ Tail(s)[i - 1] = x
    BY <1>1, <1>4
  <2> QED
    BY DEF InSeq
<1>5. ASSUME Injective(s) PROVE Injective(Tail(s)) /\ ~InSeq(Head(s), Tail(s))
  <2>1. ASSUME NEW i \in 1 .. Len(Tail(s)), NEW j \in 1 .. Len(Tail(s)), Tail(s)[i] = Tail(s)[j]
        PROVE  i = j
    <3>1. i + 1 \in 1 .. Len(s) /\ j + 1 \in 1 .. Len(s) /\ s[i + 1] = s[j + 1]
      BY <1>1, <2>1
    <3> QED
      BY <3>1, <1>5 DEF Injective
  <2>2. ASSUME NEW i \in 1 .. Len(Tail(s)), Tail(s)[i] = Head(s) PROVE FALSE
    <3>1. i + 1 \in 1 .. Len(s) /\ 1 \in 1 .. Len(s) /\ s[i + 1] = s[1]
      BY <1>1, <2>2
    <3> QED
      BY <3>1, <1>5 DEF Injective
  <2> QED
    BY <2>1, <2>2 DEF Injective, InSeq
<1> QED
  BY <1>1, <1>2, <1>3, <1>4, <1>5

(* Two sequences without a common element, one after the other.            *)
LEMMA InConcat ==
  ASSUME NEW S, NEW f \in Seq(S), NEW g \in Seq(S)
  PROVE  /\ f \o g \in Seq(S)
         /\ \A x : InSeq(x, f \o g) <=> InSeq(x, f) \/ InSeq(x, g)
         /\ Injective(f) /\ Injective(g) /\ (\A x : ~(InSeq(x, f) /\ InSeq(x, g)))
              => Injective(f \o g)
<1>1. /\ Len(f) \in Nat /\ Len(g) \in Nat /\ f \o g \in Seq(S)
      /\ Len(f \o g) = Len(f) + Len(g)
      /\ \A i \in 1 .. Len(f) + Len(g) :
           (f \o g)[i] = IF i <= Len(f) THEN f[i] ELSE g[i - Len(f)]
  OBVIOUS
<1>2. ASSUME NEW i \in 1 .. Len(f) PROVE i \in 1 .. Len(f \o g) /\ (f \o g)[i] = f[i]
  BY <1>1
<1>3. ASSUME NEW i \in 1 .. Len(g)
      PROVE  i + Len(f) \in 1 .. Len(f \o g) /\ (f \o g)[i + Len(f)] = g[i]
  BY <1>1
<1>4. ASSUME NEW i \in 1 .. Len(f \o g)
      PROVE  \/ i \in 1 .. Len(f) /\ (f \o g)[i] = f[i]
             \/ i - Len(f) \in 1 .. Len(g) /\ (f \o g)[i] = g[i - Len(f)]
  BY <1>1
<1>5. ASSUME NEW x PROVE InSeq(x, f \o g) <=> InSeq(x, f) \/ InSeq(x, g)
  BY <1>2, <1>3, <1>4 DEF InSeq
<1>6. ASSUME Injective(f), Injective(g), \A x : ~(InSeq(x, f) /\ InSeq(x, g)),
             NEW i \in 1 .. Len(f \o g), NEW j \in 1 .. Len(f \o g), (f \o g)[i] = (f \o g)[j]
      PROVE  i = j
  <2>1. \A k \in 1 .. Len(f), l \in 1 .. Len(g) : f[k] # g[l]
    BY <1>6 DEF InSeq
  <2>2. CASE i \in 1 .. Len(f) /\ (f \o g)[i] = f[i]
    BY <1>4, <1>6, <2>1, <2>2 DEF Injective
  <2>3. CASE i - Len(f) \in 1 .. Len(g) /\ (f \o g)[i] = g[i - Len(f)]
    <3>1. j - Len(f) \in 1 .. Len(g) /\ (f \o g)[j] = g[j - Len(f)]
      BY <1>4, <1>6, <2>1, <2>3
    <3>2. i - Len(f) = j - Len(f)
      BY <1>6, <2>3, <3>1 DEF Injective
    <3> QED
      BY <3>2, <1>1
  <2> QED
    BY <1>4, <2>2, <2>3
<1> QED
  BY <1>1, <1>5, <1>6 DEF Injective

(* An order of a set has its elements, each once.                          *)
LEMMA OrdersHave ==
  ASSUME NEW S, S \subseteq Call, NEW f \in Orders(S)
  PROVE  /\ f \in Seq(Call)
         /\ Injective(f)
         /\ \A x : InSeq(x, f) <=> x \in S
<1>1. PICK n \in 0 .. Len(batch) : f \in [1 .. n -> S]
  BY DEF Orders
<1>2. f \in [DOMAIN f -> S] /\ DOMAIN f = 1 .. n
  BY <1>1
<1>3. CASE n \in Nat
  <2>1. f \in Seq(S) /\ Len(f) = n
    BY <1>1, <1>3
  <2>2. Injective(f) /\ \A c \in S : InSeq(c, f)
    BY <1>2, <2>1 DEF Orders, Injective
  <2>3. \A x : InSeq(x, f) => x \in S
    BY <1>2, <2>1 DEF InSeq
  <2>4. f \in Seq(Call)
    BY <1>1, <1>3
  <2> QED
    BY <2>2, <2>3, <2>4
<1>4. n \in Nat
  OBVIOUS
<1> QED
  BY <1>3, <1>4

LEMMA JudgedIn ==
  ASSUME NEW v
  PROVE  /\ Judged(v) \subseteq Call
         /\ \A c : c \in Judged(v) <=> c \in Call /\ InSeq(c, batch) /\ verdict[c] = v
BY DEF Judged, Calls

(* The entry of the session file that is replaced or added.                *)
LEMMA UpsertHas ==
  ASSUME TypeOK, NEW c \in Call, NEW s \in {"pending"} \cup Settled
  PROVE  /\ Upsert(c, s) \in Seq([call: Call, state: {"pending"} \cup Settled])
         /\ \A i \in DOMAIN Upsert(c, s) :
              \/ Upsert(c, s)[i] = [call |-> c, state |-> s]
              \/ /\ Upsert(c, s)[i].call # c
                 /\ \E j \in DOMAIN stored : Upsert(c, s)[i] = stored[j]
         /\ \E i \in DOMAIN Upsert(c, s) : Upsert(c, s)[i].call = c
<1> DEFINE E == [call: Call, state: {"pending"} \cup Settled]
           e == [call |-> c, state |-> s]
<1>1. stored \in Seq(E) /\ e \in E /\ e.call = c /\ DOMAIN stored = 1 .. Len(stored)
      /\ Len(stored) \in Nat
  BY DEF TypeOK
<1>2. CASE \E i \in 1 .. Len(stored) : stored[i].call = c
  <2> DEFINE u == [i \in 1 .. Len(stored) |-> IF stored[i].call = c THEN e ELSE stored[i]]
  <2>1. Upsert(c, s) = u
    BY <1>2 DEF Upsert
  <2>2. u \in [1 .. Len(stored) -> E] /\ u \in Seq(E) /\ DOMAIN u = 1 .. Len(stored)
    <3> HIDE DEF E, e
    <3>1. \A i \in 1 .. Len(stored) : stored[i] \in E
      BY <1>1
    <3>2. u \in [1 .. Len(stored) -> E]
      BY <1>1, <3>1
    <3> QED
      BY <1>1, <3>2
  <2>3. \A i \in 1 .. Len(stored) : u[i] = IF stored[i].call = c THEN e ELSE stored[i]
    OBVIOUS
  <2> HIDE DEF u, e, E
  <2>4. \A i \in DOMAIN u : u[i] = e \/ (u[i].call # c /\ \E j \in DOMAIN stored : u[i] = stored[j])
    BY <1>1, <2>2, <2>3
  <2>5. \E i \in DOMAIN u : u[i].call = c
    BY <1>1, <1>2, <2>2, <2>3
  <2> QED
    BY <2>1, <2>2, <2>4, <2>5 DEF e, E
<1>3. CASE ~\E i \in 1 .. Len(stored) : stored[i].call = c
  <2> DEFINE a == Append(stored, e)
  <2>1. Upsert(c, s) = Capped(a)
    BY <1>3 DEF Upsert
  <2>2. /\ a \in Seq(E) /\ Len(a) = Len(stored) + 1 /\ a[Len(a)] = e
        /\ \A i \in 1 .. Len(stored) : a[i] = stored[i] /\ a[i].call # c
    BY <1>1, <1>3
  <2> HIDE DEF a, e, E
  <2>3. ASSUME NEW i \in 1 .. Len(a)
        PROVE  a[i] = e \/ (a[i].call # c /\ \E j \in DOMAIN stored : a[i] = stored[j])
    BY <1>1, <2>2
  <2>4. CASE Len(a) <= MaxStored
    <3>1. Upsert(c, s) = a /\ DOMAIN a = 1 .. Len(a) /\ Len(a) \in DOMAIN a
      BY <1>1, <2>1, <2>2, <2>4 DEF Capped
    <3>2. \A i \in DOMAIN a : a[i] = e \/ (a[i].call # c /\ \E j \in DOMAIN stored : a[i] = stored[j])
      BY <2>3, <3>1
    <3>3. \E i \in DOMAIN a : a[i].call = c
      BY <1>1, <2>2, <3>1
    <3> QED
      BY <2>2, <3>1, <3>2, <3>3 DEF e, E
  <2>5. CASE ~(Len(a) <= MaxStored)
    <3> DEFINE b == SubSeq(a, Len(a) - MaxStored + 1, Len(a))
    <3>1. Upsert(c, s) = b /\ MaxStored \in Nat /\ MaxStored >= 1
      BY <2>1, <2>5, BoundsAssumption DEF Capped
    <3>2. Len(a) - MaxStored + 1 \in 1 .. Len(a)
      BY <1>1, <2>2, <2>5, <3>1
    <3>3. /\ b \in Seq(E) /\ Len(b) = MaxStored
          /\ \A i \in 1 .. MaxStored : b[i] = a[Len(a) - MaxStored + i]
      <4>0. a \in Seq(E) /\ Len(a) \in Nat
        BY <1>1, <2>2
      <4> HIDE DEF a
      <4>1. Len(a) - MaxStored + 1 \in Int /\ Len(a) - (Len(a) - MaxStored + 1) + 1 = MaxStored
        BY <4>0, <3>1
      <4>2. b \in Seq(E) /\ Len(b) = MaxStored
        BY <4>0, <4>1, <3>1, <3>2
      <4>3. ASSUME NEW i \in 1 .. MaxStored
            PROVE  b[i] = a[Len(a) - MaxStored + i]
        BY <4>0, <4>1, <3>1, <3>2
      <4> QED
        BY <4>2, <4>3
    <3> HIDE DEF b
    <3>4. DOMAIN b = 1 .. MaxStored
      BY <3>3, <3>1
    <3>5. ASSUME NEW i \in DOMAIN b
          PROVE  b[i] = e \/ (b[i].call # c /\ \E j \in DOMAIN stored : b[i] = stored[j])
      <4>1. Len(a) - MaxStored + i \in 1 .. Len(a)
        BY <1>1, <2>2, <2>5, <3>1, <3>4
      <4> QED
        BY <4>1, <2>3, <3>3, <3>4
    <3>6. b[MaxStored].call = c /\ MaxStored \in DOMAIN b
      <4>1. b[MaxStored] = a[Len(a) - MaxStored + MaxStored]
        BY <3>3, <3>1
      <4>2. Len(a) - MaxStored + MaxStored = Len(a)
        BY <1>1, <2>2, <3>1
      <4> QED
        BY <4>1, <4>2, <2>2, <1>1, <3>4, <3>1
    <3> QED
      BY <3>1, <3>3, <3>5, <3>6 DEF e, E
  <2> QED
    BY <2>4, <2>5
<1> QED
  BY <1>2, <1>3

-----------------------------------------------------------------------------
(* Every step keeps the types *)

LEMMA AbandonedType ==
  ASSUME TypeOK PROVE Abandoned \in [Call -> {None, "open", "started"} \cup Final]
BY DEF TypeOK, Abandoned, Final

LEMMA HeadOfAsks ==
  ASSUME TypeOK, Approvals, phase = "waiting" PROVE asks # <<>> /\ Head(asks) \in Call
BY InTail DEF TypeOK, Approvals

LEMMA HeadOfLeft ==
  ASSUME TypeOK, Running, phase = "tool" PROVE left # <<>> /\ Head(left) \in Call
BY InTail DEF TypeOK, Running, ToRun

LEMMA SettleTypes ==
  ASSUME TypeOK, NEW c \in Call, NEW s \in {"pending"} \cup Settled,
         prompt' = [prompt EXCEPT ![c] = s], stored' = Upsert(c, s)
  PROVE  /\ prompt' \in [Call -> {None, "pending"} \cup Settled]
         /\ stored' \in Seq([call: Call, state: {"pending"} \cup Settled])
<1>1. prompt' \in [Call -> {None, "pending"} \cup Settled]
  BY DEF TypeOK
<1> QED
  BY <1>1, UpsertHas

LEMMA EndsTypes ==
  ASSUME TypeOK, left # <<>>, NEW o \in Final, NEW notes \in Seq(Call \X Noted),
         Ends(o, notes), slipped' \in BOOLEAN
  PROVE  TypeOK'
<1>1. Head(left) \in Call /\ Tail(left) \in Seq(Call)
  BY InTail DEF TypeOK
<1>2. /\ outcome' \in [Call -> {None, "open", "started"} \cup Final]
      /\ record' \in [Call -> {None} \cup Final]
  BY <1>1 DEF TypeOK, Ends
<1>3. ran' \in Seq(Call) /\ results' \in Seq(Call \X Noted) /\ left' \in Seq(Call)
  BY <1>1 DEF TypeOK, Ends
<1> QED
  BY <1>2, <1>3 DEF TypeOK, Ends, approval

(* What the model is given of the calls that ran.                          *)
LEMMA PairsHave ==
  ASSUME TypeOK, Noting
  PROVE  \A c \in Call : IF InSeq(c, ran)
           THEN \E i \in 1 .. Len(ran) : /\ ran[i] = c
                                          /\ Pairs[c] = results[i]
                                          /\ results[i] \in Call \X Noted
           ELSE Pairs[c] = shown[c]
<1> SUFFICES ASSUME NEW c \in Call
             PROVE  IF InSeq(c, ran)
                      THEN \E i \in 1 .. Len(ran) : /\ ran[i] = c
                                                     /\ Pairs[c] = results[i]
                                                     /\ results[i] \in Call \X Noted
                      ELSE Pairs[c] = shown[c]
  OBVIOUS
<1>1. CASE ~InSeq(c, ran)
  BY <1>1 DEF Pairs
<1>2. CASE InSeq(c, ran)
  <2>1. Pairs[c] = results[CHOOSE i \in DOMAIN ran : ran[i] = c]
    BY <1>2 DEF Pairs
  <2>2. DOMAIN ran = 1 .. Len(ran) /\ Len(ran) \in Nat
    BY DEF TypeOK
  <2>3. PICK i \in DOMAIN ran : i = (CHOOSE j \in DOMAIN ran : ran[j] = c) /\ ran[i] = c
    BY <1>2, <2>2 DEF InSeq
  <2>4. i \in 1 .. Len(results) /\ results \in Seq(Call \X Noted)
    BY <2>2 DEF Noting, TypeOK
  <2>5. results[i] \in Call \X Noted
    BY <2>4
  <2> QED
    BY <1>2, <2>1, <2>2, <2>3, <2>5
<1> QED
  BY <1>1, <1>2

LEMMA PairsType ==
  ASSUME TypeOK, Noting PROVE Pairs \in [Call -> {None} \cup (Call \X Noted)]
<1>1. \A c \in Call : Pairs[c] \in {None} \cup (Call \X Noted)
  BY PairsHave DEF TypeOK
<1>2. Pairs = [c \in Call |-> Pairs[c]]
  BY DEF Pairs
<1> QED
  BY <1>1, <1>2

LEMMA TypesKept ==
  ASSUME TypeOK, Approvals, Running, Next PROVE TypeOK'
<1> USE AbandonedType
<1>1. ASSUME NEW c \in Call, CallIssued(c) PROVE TypeOK'
  <2>1. batch' \in Seq(Call)
    BY <1>1, InAppend DEF CallIssued, TypeOK
  <2>2. outcome' \in [Call -> {None, "open", "started"} \cup Final]
    BY <1>1 DEF CallIssued, TypeOK
  <2> QED
    BY <1>1, <2>1, <2>2 DEF CallIssued, TypeOK, approval, history, lists
<1>2. CASE ModelFinishes \/ ModelFails \/ HooksFail \/ BatchUnwritable \/ TurnsExhausted
  BY <1>2 DEF TypeOK, ModelFinishes, ModelFails, HooksFail, BatchUnwritable, TurnsExhausted,
     EndsWith, approval, history, lists, Over
<1>3. CASE GuardrailsJudge
  <2>1. PICK v \in [Calls(batch) -> {"run", "auto_reply", "user_approval"}] :
          verdict' = [c \in Call |-> IF InSeq(c, batch) THEN v[c] ELSE verdict[c]]
    BY <1>3 DEF GuardrailsJudge
  <2>2. verdict' \in [Call -> {None, "run", "auto_reply", "user_approval"}]
    BY <2>1 DEF TypeOK, Calls
  <2> QED
    BY <1>3, <2>2 DEF GuardrailsJudge, TypeOK, approval, history, lists, Suspended
<1>4. CASE HooksDone
  <2>1. asks' \in Orders(Judged("user_approval"))
    BY <1>4 DEF HooksDone, AsIssued
  <2>2. asks' \in Seq(Call)
    BY <2>1, OrdersHave, JudgedIn
  <2> QED
    BY <1>4, <2>2 DEF HooksDone, TypeOK, approval, history, lists
<1>5. CASE Ask
  <2>1. Head(asks) \in Call
    BY <1>5, InTail DEF TypeOK, Ask
  <2>2. /\ prompt' \in [Call -> {None, "pending"} \cup Settled]
        /\ stored' \in Seq([call: Call, state: {"pending"} \cup Settled])
    BY <1>5, <2>1, SettleTypes DEF Ask
  <2> QED
    BY <1>5, <2>2 DEF Ask, TypeOK, approval, history, lists, Suspended
<1>6. CASE DeadlineFires
  BY <1>6 DEF DeadlineFires, TypeOK, approval, history, lists
<1>7. ASSUME NEW c \in Call, NEW yes \in BOOLEAN, Decide(c, yes) PROVE TypeOK'
  <2>1. PICK s \in {"approved", "denied"} :
          prompt' = [prompt EXCEPT ![c] = s] /\ stored' = Upsert(c, s)
    BY <1>7 DEF Decide
  <2>2. /\ prompt' \in [Call -> {None, "pending"} \cup Settled]
        /\ stored' \in Seq([call: Call, state: {"pending"} \cup Settled])
    BY <2>1, SettleTypes DEF Settled
  <2>3. decided' \in {None, TRUE, FALSE}
    BY <1>7 DEF Decide
  <2> QED
    BY <1>7, <2>2, <2>3 DEF Decide, TypeOK, approval, history, lists
<1>8. ASSUME NEW s \in Settled, Settle(s), phase = "waiting"
      PROVE  /\ prompt' \in [Call -> {None, "pending"} \cup Settled]
             /\ stored' \in Seq([call: Call, state: {"pending"} \cup Settled])
             /\ decided' \in {None, TRUE, FALSE} /\ expired' \in BOOLEAN
  BY <1>8, HeadOfAsks, SettleTypes DEF Settle
<1>9. CASE ApprovalGranted \/ ApprovalRefused
  <2>1. Resumes /\ phase = "waiting" /\ asks' \in Seq(Call)
    <3>1. Resumes
      BY <1>9 DEF ApprovalGranted, ApprovalRefused
    <3>2. phase = "waiting" /\ asks' = Tail(asks)
      BY <3>1 DEF Resumes
    <3> QED
      BY <3>1, <3>2, HeadOfAsks, InTail DEF TypeOK
  <2>2. \E s \in Settled : Settle(s)
    BY <1>9 DEF ApprovalGranted, ApprovalRefused, Settled
  <2>3. refused' \in SUBSET Call /\ outcome' \in [Call -> {None, "open", "started"} \cup Final]
    <3>1. CASE ApprovalGranted
      BY <3>1 DEF ApprovalGranted, TypeOK
    <3>2. CASE ApprovalRefused
      <4>1. Head(asks) \in Call
        BY <3>2, HeadOfAsks DEF ApprovalRefused, Resumes, TypeOK
      <4>2. refused' \in SUBSET Call
        BY <3>2, <4>1 DEF ApprovalRefused, TypeOK
      <4>3. outcome' \in [Call -> {None, "open", "started"} \cup Final]
        BY <3>2, <4>1 DEF ApprovalRefused, TypeOK, Final
      <4> QED
        BY <4>2, <4>3
    <3> QED
      BY <1>9, <3>1, <3>2
  <2> QED
    BY <1>8, <2>1, <2>2, <2>3 DEF Resumes, TypeOK, history, lists
<1>10. CASE AsksDone
  BY <1>10 DEF AsksDone, TypeOK, approval, history, lists
<1>11. ASSUME NEW c \in Call, ReportBlocked(c) PROVE TypeOK'
  <2>1. /\ outcome' \in [Call -> {None, "open", "started"} \cup Final]
        /\ record' \in [Call -> {None} \cup Final]
    BY <1>11 DEF ReportBlocked, TypeOK, Final
  <2> QED
    BY <1>11, <2>1 DEF ReportBlocked, TypeOK, approval, lists
<1>12. CASE ReportsDone
  <2>1. left' \in Seq(Call)
    <3>1. PICK f \in AsIssued(Judged("run")), g \in Orders(Judged("user_approval") \ refused) :
            left' = f \o g
      BY <1>12 DEF ReportsDone, Remaining
    <3>2. f \in Seq(Call) /\ g \in Seq(Call)
      BY OrdersHave, JudgedIn DEF AsIssued
    <3> QED
      BY <3>1, <3>2, InConcat
  <2>2. shown' \in [Call -> {None} \cup (Call \X Noted)]
    BY <1>12 DEF ReportsDone, TypeOK, Noted, Final
  <2>3. ran' \in Seq(Call) /\ results' \in Seq(Call \X Noted)
    BY <1>12 DEF ReportsDone
  <2> QED
    BY <1>12, <2>1, <2>2, <2>3 DEF ReportsDone, TypeOK, approval
<1>13. CASE UnknownTool
  <2>1. Head(left) \in Call /\ left # <<>>
    BY <1>13, InTail DEF UnknownTool, TypeOK
  <2>2. <<Note("failed")>> \in Seq(Call \X Noted) /\ "failed" \in Final /\ slipped' \in BOOLEAN
    BY <1>13, <2>1 DEF UnknownTool, Note, Noted, Final, TypeOK
  <2> QED
    BY <1>13, <2>1, <2>2, EndsTypes DEF UnknownTool
<1>14. CASE StartTool
  <2>1. Head(left) \in Call
    BY <1>14, InTail DEF StartTool, TypeOK
  <2>2. /\ outcome' \in [Call -> {None, "open", "started"} \cup Final]
        /\ starts' \in [Call -> Nat]
        /\ args' \in [Call -> {None, "raw", "hooked"}]
    <3>1. outcome' \in [Call -> {None, "open", "started"} \cup Final]
      BY <1>14, <2>1 DEF StartTool, TypeOK
    <3>2. starts' \in [Call -> Nat]
      BY <1>14, <2>1 DEF StartTool, TypeOK
    <3>3. args' \in [Call -> {None, "raw", "hooked"}]
      BY <1>14, <2>1 DEF StartTool, TypeOK
    <3> QED
      BY <3>1, <3>2, <3>3
  <2> QED
    BY <1>14, <2>2 DEF StartTool, TypeOK, approval, history, lists, Suspended
<1>15. CASE BatchDone
  <2>1. shown' \in [Call -> {None} \cup (Call \X Noted)]
    BY <1>15, PairsType DEF BatchDone, Running
  <2> QED
    BY <1>15, <2>1 DEF BatchDone, TypeOK, approval, lists, Suspended
<1>16. CASE NextTurn
  <2>1. turn' \in 1 .. MaxTurns
    <3>1. turn \in 1 .. MaxTurns /\ turn < MaxTurns /\ turn' = turn + 1
      BY <1>16 DEF NextTurn, TypeOK
    <3> QED
      BY <3>1, BoundsAssumption
  <2>2. batch' \in Seq(Call)
    <3>1. batch' = <<>>
      BY <1>16 DEF NextTurn
    <3> QED
      BY <3>1
  <2> QED
    BY <1>16, <2>1, <2>2 DEF NextTurn, TypeOK, approval, history, lists, Suspended
<1>17. CASE StopDelivered
  <2>1. /\ prompt' \in [Call -> {None, "pending"} \cup Settled]
        /\ stored' \in Seq([call: Call, state: {"pending"} \cup Settled])
        /\ decided' \in {None, TRUE, FALSE} /\ expired' \in BOOLEAN
    BY <1>8, <1>17 DEF StopDelivered, TypeOK, approval, Settled
  <2>2. phase' \in Over /\ status' \in {"cancelled"} /\ outcome' = Abandoned
    BY <1>17 DEF StopDelivered, EndsWith, Over
  <2> QED
    BY <1>17, <2>1, <2>2 DEF StopDelivered, TypeOK, history, lists
<1>18. CASE ToolEnds
  <2> phase = "tool"
    BY <1>18 DEF ToolEnds, ToolReturns, ResultUnwritable, ArtifactsFail
  <2>1. Head(left) \in Call /\ left # <<>>
    BY HeadOfLeft
  <2>2. \E o \in Final, notes \in Seq(Call \X Noted) : Ends(o, notes)
    <3>1. \A n \in Noted : Note(n) \in Call \X Noted
      BY <2>1 DEF Note
    <3>2. \A n, m \in Noted : <<Note(n)>> \in Seq(Call \X Noted) /\ <<Note(n), Note(m)>> \in Seq(Call \X Noted)
      BY <3>1
    <3>3. "bad" \in Noted /\ "failed" \in Final /\ "completed" \in Final /\ Final \subseteq Noted
      BY DEF Noted, Final
    <3> QED
      BY <1>18, <3>2, <3>3 DEF ToolEnds, ToolReturns, ResultUnwritable, ArtifactsFail
  <2>3. slipped' \in BOOLEAN
    BY <1>18 DEF ToolEnds, ToolReturns, ResultUnwritable, ArtifactsFail, TypeOK
  <2> QED
    BY <2>1, <2>2, <2>3, EndsTypes
<1>19. CASE Stop
  BY <1>19 DEF Stop, TypeOK, approval, history, lists
<1>20. CASE Crash
  BY <1>20 DEF Crash, TypeOK, history, lists, Over
<1> QED
  BY <1>1, <1>2, <1>3, <1>4, <1>5, <1>6, <1>7, <1>9, <1>10, <1>11, <1>12, <1>13, <1>14,
     <1>15, <1>16, <1>17, <1>18, <1>19, <1>20 DEF Next, Work

-----------------------------------------------------------------------------
(* What the steps have in common *)

(* The parts of the invariant that are about prompts, about records, and   *)
(* about the stage of the turn.                                            *)
Prompts == StartedWasAllowed /\ PromptsAgree
Stages == /\ Earlier /\ Judging /\ Verdicts /\ Approvals /\ Running /\ Answering

LEMMA InvSplit == Inv <=> TypeOK /\ Prompts /\ OwnResult /\ Records /\ Stages
BY DEF Inv, Prompts, Stages

(* A step that leaves the prompts alone.                                   *)
LEMMA PromptsStand ==
  ASSUME Prompts, phase' # "crashed", phase # "crashed",
         UNCHANGED <<prompt, stored, starts, verdict>>,
         phase = "waiting" => phase' = phase /\ asks' = asks
  PROVE  Prompts'
<1>1. StartedWasAllowed'
  BY DEF Prompts, StartedWasAllowed
<1>2. PromptsAgree'
  BY DEF Prompts, PromptsAgree
<1> QED
  BY <1>1, <1>2 DEF Prompts

(* A prompt of a call that has not been started is made or settled, while  *)
(* no other prompt waits.                                                  *)
LEMMA PromptSet ==
  ASSUME TypeOK, Prompts, phase' # "crashed", phase # "crashed",
         NEW c \in Call, NEW s \in {"pending"} \cup Settled,
         starts[c] = 0, \A d \in Call : prompt[d] = "pending" => d = c,
         prompt' = [prompt EXCEPT ![c] = s], stored' = Upsert(c, s),
         UNCHANGED <<starts, verdict>>,
         s = "pending" => phase' = "waiting" /\ c = Head(asks')
  PROVE  Prompts'
<1>1. prompt'[c] = s /\ \A d \in Call \ {c} : prompt'[d] = prompt[d]
  BY DEF TypeOK
<1>2. \A i \in DOMAIN stored' :
        \/ stored'[i] = [call |-> c, state |-> s]
        \/ stored'[i].call # c /\ \E j \in DOMAIN stored : stored'[i] = stored[j]
  BY UpsertHas
<1>3. \E i \in DOMAIN stored' : stored'[i].call = c
  BY UpsertHas
<1>4. \A j \in DOMAIN stored : stored[j].call \in Call
  <2> DEFINE E == [call: Call, state: {"pending"} \cup Settled]
  <2>1. \A e \in E : e.call \in Call
    OBVIOUS
  <2>2. stored \in Seq(E)
    BY DEF TypeOK
  <2> HIDE DEF E
  <2> QED
    BY <2>1, <2>2
<1>5. StartedWasAllowed'
  <2> SUFFICES ASSUME NEW d \in Call, starts[d] > 0
               PROVE  /\ verdict[d] # "auto_reply"
                      /\ verdict[d] = "user_approval" =>
                           /\ prompt'[d] = "approved"
                           /\ \A i \in DOMAIN stored' : stored'[i].call = d => stored'[i].state = "approved"
    BY DEF StartedWasAllowed
  <2>1. d # c /\ prompt'[d] = prompt[d]
    BY <1>1
  <2>2. /\ verdict[d] # "auto_reply"
        /\ verdict[d] = "user_approval" =>
             /\ prompt[d] = "approved"
             /\ \A i \in DOMAIN stored : stored[i].call = d => stored[i].state = "approved"
    BY DEF Prompts, StartedWasAllowed
  <2>3. \A i \in DOMAIN stored' : stored'[i].call = d => \E j \in DOMAIN stored : stored'[i] = stored[j]
    BY <1>2, <2>1
  <2> QED
    BY <2>1, <2>2, <2>3
<1>6. PromptsAgree'
  <2>1. ASSUME NEW i \in DOMAIN stored' PROVE stored'[i].state = prompt'[stored'[i].call]
    <3>1. CASE stored'[i] = [call |-> c, state |-> s]
      BY <3>1, <1>1
    <3>2. CASE stored'[i].call # c /\ \E j \in DOMAIN stored : stored'[i] = stored[j]
      <4>1. PICK j \in DOMAIN stored : stored'[i] = stored[j]
        BY <3>2
      <4>2. stored[j].state = prompt[stored[j].call] /\ stored[j].call \in Call \ {c}
        BY <1>4, <3>2, <4>1 DEF Prompts, PromptsAgree
      <4> QED
        BY <4>1, <4>2, <1>1
    <3> QED
      BY <1>2, <3>1, <3>2
  <2>2. ASSUME NEW d \in Call, prompt'[d] = "pending"
        PROVE  phase' = "waiting" /\ d = Head(asks') /\ \E i \in DOMAIN stored' : stored'[i].call = d
    <3>1. d = c
      BY <1>1, <2>2
    <3>2. s = "pending"
      BY <1>1, <2>2, <3>1
    <3> QED
      BY <3>1, <3>2, <1>3
  <2> QED
    BY <2>1, <2>2 DEF PromptsAgree
<1> QED
  BY <1>5, <1>6 DEF Prompts

(* The run ends: the calls under way stay without a record, the others are *)
(* as they were.                                                           *)
LEMMA EndingKeeps ==
  ASSUME TypeOK, Records, OwnResult, phase' \in Over, outcome' = Abandoned,
         UNCHANGED <<batch, starts, history, slipped>>
  PROVE  Records' /\ OwnResult' /\ Stages'
<1>1. Records'
  <2> SUFFICES ASSUME NEW c \in Call
               PROVE  /\ outcome'[c] \in {None, "open"} => starts[c] = 0
                      /\ record[c] # None => record[c] = outcome'[c]
                      /\ shown[c] # None => record[c] # None
                      /\ InSeq(c, batch) => outcome'[c] # None
    BY DEF Records, history, InSeq
  <2>1. outcome'[c] = IF outcome[c] \in {"open", "started"} THEN "unknown" ELSE outcome[c]
    BY DEF Abandoned
  <2>2. record[c] \in {None} \cup Final
    BY DEF TypeOK
  <2>3. None # "unknown" /\ Final = {"completed", "denied", "failed", "unknown"}
    BY NoneAssumption DEF Final, Noted
  <2> QED
    BY <2>1, <2>2, <2>3 DEF Records
<1>2. OwnResult'
  BY DEF OwnResult, history
<1>3. phase' \notin Suspended \cup {"asking", "reporting", "starting"}
  BY DEF Over, Suspended
<1>4. Stages'
  BY <1>3 DEF Stages, Earlier, Judging, Verdicts, Approvals, Running, Answering, Suspended
<1> QED
  BY <1>1, <1>2, <1>4

LEMMA HeadAsked ==
  ASSUME TypeOK, Records, Approvals, phase \in {"asking", "waiting"}, asks # <<>>
  PROVE  /\ Head(asks) \in Call /\ InSeq(Head(asks), asks) /\ Tail(asks) \in Seq(Call)
         /\ InSeq(Head(asks), batch) /\ verdict[Head(asks)] = "user_approval"
         /\ Head(asks) \notin refused
         /\ outcome[Head(asks)] = "open" /\ starts[Head(asks)] = 0
         /\ \A c \in Call : InSeq(c, asks) <=> c = Head(asks) \/ InSeq(c, Tail(asks))
         /\ Injective(Tail(asks)) /\ ~InSeq(Head(asks), Tail(asks))
<1>1. /\ Head(asks) \in Call /\ InSeq(Head(asks), asks) /\ Tail(asks) \in Seq(Call)
      /\ \A x : InSeq(x, Tail(asks)) => InSeq(x, asks)
      /\ \A x : InSeq(x, asks) => x = Head(asks) \/ InSeq(x, Tail(asks))
      /\ Injective(asks) => Injective(Tail(asks)) /\ ~InSeq(Head(asks), Tail(asks))
  BY InTail DEF TypeOK
<1>2. /\ InSeq(Head(asks), batch) /\ verdict[Head(asks)] = "user_approval"
      /\ Asked(Head(asks)) /\ Injective(asks)
  BY <1>1 DEF Approvals
<1>3. Head(asks) \notin refused /\ outcome[Head(asks)] = "open"
  BY <1>1, <1>2 DEF Asked
<1>4. starts[Head(asks)] = 0
  BY <1>1, <1>3 DEF Records
<1> QED
  BY <1>1, <1>2, <1>3, <1>4

-----------------------------------------------------------------------------
(* The model's turn *)

LEMMA CallIssuedKeeps ==
  ASSUME Inv, NEW c \in Call, CallIssued(c)
  PROVE  Prompts' /\ OwnResult' /\ Records' /\ Stages'
<1>1. /\ TypeOK /\ Prompts /\ OwnResult /\ Records /\ Earlier /\ Judging
  BY DEF Inv, Prompts
<1>2. /\ phase = "model" /\ phase' = "model" /\ outcome[c] = None
      /\ outcome'[c] = "open" /\ \A d \in Call \ {c} : outcome'[d] = outcome[d]
      /\ \A x : InSeq(x, batch') <=> InSeq(x, batch) \/ x = c
      /\ UNCHANGED <<verdict, asks, refused, left, approval, starts, history, lists>>
  BY <1>1, InAppend DEF CallIssued, TypeOK
<1>3. Prompts'
  BY <1>1, <1>2, PromptsStand DEF approval
<1>4. OwnResult'
  BY <1>1, <1>2 DEF OwnResult, history, lists
<1>5. record[c] = None /\ shown[c] = None /\ starts[c] = 0
  BY <1>1, <1>2, NoneAssumption DEF Records, TypeOK, Noted
<1>6. Records'
  <2> SUFFICES ASSUME NEW d \in Call
               PROVE  /\ outcome'[d] \in {None, "open"} => starts[d] = 0
                      /\ record[d] # None => record[d] = outcome'[d]
                      /\ shown[d] # None => record[d] # None
                      /\ InSeq(d, batch') => outcome'[d] # None
    BY <1>2 DEF Records, history
  <2> QED
    BY <1>1, <1>2, <1>5, NoneAssumption DEF Records
<1>7. Earlier'
  BY <1>1, <1>2 DEF Earlier, Answered, history, Over
<1>8. Judging'
  BY <1>1, <1>2 DEF Judging
<1>9. Verdicts' /\ Approvals' /\ Running' /\ Answering'
  BY <1>2 DEF Verdicts, Approvals, Running, Answering
<1> QED
  BY <1>3, <1>4, <1>6, <1>7, <1>8, <1>9 DEF Stages

LEMMA JudgeKeeps ==
  ASSUME Inv, GuardrailsJudge
  PROVE  Prompts' /\ OwnResult' /\ Records' /\ Stages'
<1>1. /\ TypeOK /\ Prompts /\ OwnResult /\ Records /\ Earlier /\ Judging
  BY DEF Inv, Prompts
<1>2. PICK v \in [Calls(batch) -> {"run", "auto_reply", "user_approval"}] :
        verdict' = [c \in Call |-> IF InSeq(c, batch) THEN v[c] ELSE verdict[c]]
  BY DEF GuardrailsJudge
<1>3. /\ phase = "model" /\ phase' = "hooks" /\ refused' = {}
      /\ \A c \in Call : InSeq(c, batch) => outcome[c] = "open" /\ starts[c] = 0
      /\ UNCHANGED <<batch, asks, left, approval, outcome, starts, history, lists>>
  BY <1>1 DEF GuardrailsJudge, Judging, Records
<1>4. /\ \A c \in Call : InSeq(c, batch) => verdict'[c] # None
      /\ \A c \in Call : ~InSeq(c, batch) => verdict'[c] = verdict[c]
  BY <1>2, NoneAssumption DEF Calls
<1>5. Prompts'
  <2>1. \A c \in Call : starts[c] > 0 => verdict'[c] = verdict[c]
    BY <1>3, <1>4
  <2>2. StartedWasAllowed'
    BY <1>1, <1>3, <2>1 DEF Prompts, StartedWasAllowed, approval
  <2>3. PromptsAgree'
    BY <1>1, <1>3 DEF Prompts, PromptsAgree, approval
  <2> QED
    BY <2>2, <2>3 DEF Prompts
<1>6. OwnResult' /\ Records' /\ Earlier'
  BY <1>1, <1>3 DEF OwnResult, Records, Earlier, Answered, InSeq, history, lists, Over
<1>7. Judging' /\ Verdicts'
  BY <1>3, <1>4 DEF Judging, Verdicts, InSeq
<1>8. Approvals' /\ Running' /\ Answering'
  BY <1>3 DEF Approvals, Running, Answering
<1> QED
  BY <1>5, <1>6, <1>7, <1>8 DEF Stages

LEMMA HooksDoneKeeps ==
  ASSUME Inv, HooksDone
  PROVE  Prompts' /\ OwnResult' /\ Records' /\ Stages'
<1>1. /\ TypeOK /\ Prompts /\ OwnResult /\ Records /\ Earlier /\ Judging /\ Verdicts
  BY DEF Inv, Prompts
<1>2. /\ phase = "hooks" /\ phase' = "asking" /\ refused' = {}
      /\ \A c \in Call : InSeq(c, batch) => outcome[c] = "open" /\ verdict[c] # None
      /\ UNCHANGED <<batch, verdict, refused, left, approval, outcome, starts, history, lists>>
  BY <1>1 DEF HooksDone, Judging, Verdicts
<1>3. /\ Injective(asks')
      /\ \A c \in Call : InSeq(c, asks') <=> InSeq(c, batch) /\ verdict[c] = "user_approval"
  <2>1. asks' \in Orders(Judged("user_approval"))
    BY DEF HooksDone, AsIssued
  <2> QED
    BY <2>1, OrdersHave, JudgedIn
<1>4. Prompts'
  BY <1>1, <1>2, PromptsStand DEF approval
<1>5. OwnResult' /\ Records' /\ Earlier'
  BY <1>1, <1>2 DEF OwnResult, Records, Earlier, Answered, InSeq, history, lists, Over
<1>6. Judging' /\ Running' /\ Answering'
  BY <1>2 DEF Judging, Running, Answering
<1>7. Verdicts'
  BY <1>2 DEF Verdicts, InSeq
<1>8. Approvals'
  <2> SUFFICES /\ Injective(asks')
               /\ \A c \in Call : c \in refused' \/ InSeq(c, asks') =>
                    InSeq(c, batch') /\ verdict'[c] = "user_approval"
               /\ \A c \in Call : InSeq(c, batch') =>
                    /\ verdict'[c] = "run" => outcome'[c] = "open"
                    /\ verdict'[c] = "auto_reply" => outcome'[c] \in {"open", "denied"}
                    /\ verdict'[c] = "user_approval" => Asked(c)'
    BY <1>2 DEF Approvals
  <2> QED
    BY <1>2, <1>3 DEF Asked
<1> QED
  BY <1>4, <1>5, <1>6, <1>7, <1>8 DEF Stages

-----------------------------------------------------------------------------
(* Approvals *)

(* The prompt of the call that is asked for changes, and nothing else.     *)
LEMMA AskedKeeps ==
  ASSUME Inv, phase \in {"asking", "waiting"}, asks # <<>>, phase' = "waiting",
         NEW s \in {"pending"} \cup Settled,
         prompt' = [prompt EXCEPT ![Head(asks)] = s], stored' = Upsert(Head(asks), s),
         UNCHANGED <<batch, verdict, asks, refused, left, outcome, starts, history, lists>>
  PROVE  Prompts' /\ OwnResult' /\ Records' /\ Stages'
<1>1. /\ TypeOK /\ Prompts /\ OwnResult /\ Records /\ Earlier /\ Verdicts /\ Approvals
  BY DEF Inv, Prompts
<1>2. Head(asks) \in Call /\ InSeq(Head(asks), asks) /\ starts[Head(asks)] = 0
  BY <1>1, HeadAsked
<1>3. Prompts'
  <2>1. \A d \in Call : prompt[d] = "pending" => d = Head(asks)
    BY <1>1 DEF Prompts, PromptsAgree
  <2> QED
    BY <1>1, <1>2, <2>1, PromptSet
<1>4. OwnResult' /\ Records' /\ Earlier'
  BY <1>1 DEF OwnResult, Records, Earlier, Answered, InSeq, history, lists, Over
<1>5. Judging' /\ Running' /\ Answering'
  BY DEF Judging, Running, Answering
<1>6. Verdicts'
  BY <1>1 DEF Verdicts, InSeq
<1>7. Approvals'
  <2>1. \A c \in Call : ~InSeq(c, asks) => prompt'[c] = prompt[c]
    BY <1>1, <1>2 DEF TypeOK
  <2>2. \A c \in Call : Asked(c) => Asked(c)'
    BY <2>1 DEF Asked
  <2>3. /\ Injective(asks')
        /\ \A c \in Call : c \in refused' \/ InSeq(c, asks') =>
             InSeq(c, batch') /\ verdict'[c] = "user_approval"
    BY <1>1 DEF Approvals
  <2>4. \A c \in Call : InSeq(c, batch') =>
          /\ verdict'[c] = "run" => outcome'[c] = "open"
          /\ verdict'[c] = "auto_reply" => outcome'[c] \in {"open", "denied"}
          /\ verdict'[c] = "user_approval" => Asked(c)'
    BY <1>1, <2>2 DEF Approvals
  <2> QED
    BY <2>3, <2>4 DEF Approvals
<1> QED
  BY <1>3, <1>4, <1>5, <1>6, <1>7 DEF Stages

(* The prompt is settled, and the call is approved or refused.             *)
LEMMA SettledKeeps ==
  ASSUME Inv, Resumes, NEW s \in Settled, Settle(s),
         \/ s = "approved" /\ UNCHANGED <<refused, outcome>>
         \/ /\ refused' = refused \cup {Head(asks)}
            /\ outcome' = [outcome EXCEPT ![Head(asks)] = "denied"]
  PROVE  Prompts' /\ OwnResult' /\ Records' /\ Stages'
<1> PICK h \in Call : h = Head(asks)
  BY HeadOfAsks DEF Inv, Resumes
<1>1. /\ TypeOK /\ Prompts /\ OwnResult /\ Records /\ Earlier /\ Verdicts /\ Approvals
  BY DEF Inv, Prompts
<1>2. /\ phase = "waiting" /\ phase' = "asking" /\ asks' = Tail(asks) /\ asks # <<>>
      /\ UNCHANGED <<batch, verdict, left, starts, history, lists>>
      /\ prompt' = [prompt EXCEPT ![h] = s] /\ stored' = Upsert(h, s)
  BY <1>1, HeadOfAsks DEF Resumes, Settle
<1>3. /\ InSeq(h, asks) /\ InSeq(h, batch) /\ verdict[h] = "user_approval"
      /\ h \notin refused /\ outcome[h] = "open" /\ starts[h] = 0
      /\ \A c \in Call : InSeq(c, asks) <=> c = h \/ InSeq(c, asks')
      /\ Injective(asks') /\ ~InSeq(h, asks')
  BY <1>1, <1>2, HeadAsked
<1>4. Prompts'
  <2>1. \A d \in Call : prompt[d] = "pending" => d = h
    BY <1>1, <1>2 DEF Prompts, PromptsAgree
  <2>2. s # "pending"
    BY DEF Settled
  <2> QED
    BY <1>1, <1>2, <1>3, <2>1, <2>2, PromptSet
<1>5. /\ prompt'[h] = s /\ \A d \in Call \ {h} : prompt'[d] = prompt[d] /\ outcome'[d] = outcome[d]
      /\ outcome'[h] \in {"open", "denied"}
      /\ \A d \in refused' : d \in refused \/ d = h
      /\ \/ s = "approved" /\ refused' = refused /\ outcome'[h] = "open"
         \/ h \in refused' /\ outcome'[h] = "denied" /\ refused \subseteq refused'
  BY <1>1, <1>2, <1>3 DEF TypeOK
<1>6. OwnResult'
  BY <1>1, <1>2 DEF OwnResult, history, lists
<1>7. Records'
  <2> SUFFICES ASSUME NEW d \in Call
               PROVE  /\ outcome'[d] \in {None, "open"} => starts[d] = 0
                      /\ record[d] # None => record[d] = outcome'[d]
                      /\ shown[d] # None => record[d] # None
                      /\ InSeq(d, batch) => outcome'[d] # None
    BY <1>2 DEF Records, history, InSeq
  <2>1. record[h] \in {None} \cup Final /\ "open" \notin Final
    BY <1>1 DEF TypeOK, Final
  <2> QED
    BY <1>1, <1>3, <1>5, <2>1, NoneAssumption DEF Records, Noted, Final
<1>8. Earlier'
  BY <1>1, <1>2, <1>3, <1>5 DEF Earlier, Answered, InSeq, history, Over
<1>9. Judging' /\ Running' /\ Answering'
  BY <1>2 DEF Judging, Running, Answering
<1>10. Verdicts'
  BY <1>1, <1>2 DEF Verdicts, InSeq
<1>11. Approvals'
  <2>1. Asked(h)'
    BY <1>3, <1>5 DEF Asked
  <2>2. \A c \in Call \ {h} : Asked(c) => Asked(c)'
    BY <1>3, <1>5 DEF Asked
  <2>3. \A c \in Call : c \in refused' \/ InSeq(c, asks') =>
          InSeq(c, batch') /\ verdict'[c] = "user_approval"
    BY <1>1, <1>2, <1>3, <1>5 DEF Approvals
  <2>4. \A c \in Call : InSeq(c, batch') =>
          /\ verdict'[c] = "run" => outcome'[c] = "open"
          /\ verdict'[c] = "auto_reply" => outcome'[c] \in {"open", "denied"}
          /\ verdict'[c] = "user_approval" => Asked(c)'
    BY <1>1, <1>2, <1>3, <1>5, <2>1, <2>2 DEF Approvals
  <2> QED
    BY <1>2, <1>3, <2>3, <2>4 DEF Approvals
<1> QED
  BY <1>4, <1>6, <1>7, <1>8, <1>9, <1>10, <1>11 DEF Stages

LEMMA AsksDoneKeeps ==
  ASSUME Inv, AsksDone
  PROVE  Prompts' /\ OwnResult' /\ Records' /\ Stages'
<1>1. /\ TypeOK /\ Prompts /\ OwnResult /\ Records /\ Earlier /\ Verdicts /\ Approvals
  BY DEF Inv, Prompts
<1>2. /\ phase = "asking" /\ phase' = "reporting" /\ asks = <<>>
      /\ UNCHANGED <<batch, verdict, asks, refused, left, approval, outcome, starts, history, lists>>
  BY DEF AsksDone
<1>3. Prompts'
  BY <1>1, <1>2, PromptsStand DEF approval
<1>4. OwnResult' /\ Records' /\ Earlier'
  BY <1>1, <1>2 DEF OwnResult, Records, Earlier, Answered, InSeq, history, lists, Over
<1>5. Judging' /\ Running' /\ Answering'
  BY <1>2 DEF Judging, Running, Answering
<1>6. Verdicts'
  BY <1>1, <1>2 DEF Verdicts, InSeq
<1>7. Approvals'
  <2>1. \A c \in Call : Asked(c) => Asked(c)'
    BY <1>2 DEF Asked, approval
  <2>2. /\ Injective(asks')
        /\ \A c \in Call : c \in refused' \/ InSeq(c, asks') =>
             InSeq(c, batch') /\ verdict'[c] = "user_approval"
    BY <1>1, <1>2 DEF Approvals
  <2>3. \A c \in Call : InSeq(c, batch') =>
          /\ verdict'[c] = "run" => outcome'[c] = "open"
          /\ verdict'[c] = "auto_reply" => outcome'[c] \in {"open", "denied"}
          /\ verdict'[c] = "user_approval" => Asked(c)'
    BY <1>1, <1>2, <2>1 DEF Approvals
  <2> QED
    BY <1>2, <2>2, <2>3 DEF Approvals
<1> QED
  BY <1>3, <1>4, <1>5, <1>6, <1>7 DEF Stages

-----------------------------------------------------------------------------
(* Reports *)

(* Where the calls of the turn stand once nothing is left to ask for.      *)
LEMMA WhenReporting ==
  ASSUME Inv, phase = "reporting"
  PROVE  /\ \A c \in Blocked : c \in Call /\ InSeq(c, batch) /\ outcome[c] \in {"open", "denied"}
         /\ \A c \in Blocked : verdict[c] = "auto_reply" \/ (verdict[c] = "user_approval" /\ c \in refused)
         /\ \A c \in Blocked : record[c] # None => record[c] = "denied" /\ outcome[c] = "denied"
         /\ \A c \in Call : InSeq(c, batch) /\ c \notin Blocked =>
              /\ Allowed(c) /\ outcome[c] = "open"
              /\ verdict[c] = "run" \/ c \in Judged("user_approval") \ refused
<1>1. /\ TypeOK /\ Verdicts /\ Records
      /\ \A c \in refused : /\ InSeq(c, batch) /\ verdict[c] = "user_approval"
                             /\ outcome[c] = "denied"
      /\ \A c \in Call : InSeq(c, batch) =>
           /\ verdict[c] = "run" => outcome[c] = "open"
           /\ verdict[c] = "auto_reply" => outcome[c] \in {"open", "denied"}
           /\ verdict[c] = "user_approval" => Asked(c)
      /\ \A c \in Call : ~InSeq(c, asks)
  <2>1. TypeOK /\ Verdicts /\ Records /\ asks = <<>>
    BY DEF Inv, Approvals
  <2>2. /\ \A c \in Call : c \in refused => InSeq(c, batch) /\ verdict[c] = "user_approval"
        /\ \A c \in Call : InSeq(c, batch) =>
             /\ verdict[c] = "run" => outcome[c] = "open"
             /\ verdict[c] = "auto_reply" => outcome[c] \in {"open", "denied"}
             /\ verdict[c] = "user_approval" => Asked(c)
    BY DEF Inv, Approvals
  <2>3. \A c \in Call : ~InSeq(c, asks)
    BY <2>1 DEF InSeq
  <2>4. refused \subseteq Call
    BY <2>1 DEF TypeOK
  <2>5. \A c \in refused : outcome[c] = "denied"
    BY <2>2, <2>4 DEF Asked
  <2> QED
    BY <2>1, <2>2, <2>3, <2>4, <2>5
<1>2. \A c \in Blocked : c \in Call /\ InSeq(c, batch) /\ outcome[c] \in {"open", "denied"}
  BY <1>1 DEF Blocked, Calls, TypeOK
<1>3. \A c \in Blocked : verdict[c] = "auto_reply" \/ (verdict[c] = "user_approval" /\ c \in refused)
  BY <1>1 DEF Blocked
<1>4. ASSUME NEW c \in Blocked, record[c] # None PROVE record[c] = "denied" /\ outcome[c] = "denied"
  <2>1. record[c] \in Final /\ record[c] = outcome[c]
    BY <1>1, <1>2, <1>4 DEF TypeOK, Records
  <2> QED
    BY <1>2, <2>1 DEF Final
<1>5. ASSUME NEW c \in Call, InSeq(c, batch), c \notin Blocked
      PROVE  /\ Allowed(c) /\ outcome[c] = "open"
             /\ verdict[c] = "run" \/ c \in Judged("user_approval") \ refused
  <2>1. verdict[c] \in {"run", "user_approval"} /\ c \notin refused
    BY <1>1, <1>5 DEF TypeOK, Verdicts, Blocked, Calls
  <2> QED
    BY <1>1, <1>5, <2>1, JudgedIn DEF Asked, Allowed
<1> QED
  BY <1>2, <1>3, <1>4, <1>5

LEMMA ReportBlockedKeeps ==
  ASSUME Inv, NEW c \in Call, ReportBlocked(c)
  PROVE  Prompts' /\ OwnResult' /\ Records' /\ Stages'
<1>1. /\ TypeOK /\ Prompts /\ OwnResult /\ Records /\ Earlier /\ Verdicts /\ Approvals
  BY DEF Inv, Prompts
<1>2. /\ phase = "reporting" /\ phase' = "reporting" /\ record[c] = None
      /\ outcome'[c] = "denied" /\ record'[c] = "denied"
      /\ \A d \in Call \ {c} : outcome'[d] = outcome[d] /\ record'[d] = record[d]
      /\ UNCHANGED <<batch, verdict, asks, refused, left, approval, starts, shown, lists>>
  BY <1>1 DEF ReportBlocked, TypeOK
<1>3. /\ InSeq(c, batch) /\ outcome[c] \in {"open", "denied"}
      /\ verdict[c] = "auto_reply" \/ (verdict[c] = "user_approval" /\ c \in refused)
  BY <1>2, WhenReporting DEF ReportBlocked
<1>4. shown[c] = None
  BY <1>1, <1>2 DEF Records
<1>5. Prompts'
  BY <1>1, <1>2, PromptsStand DEF approval
<1>6. OwnResult'
  <2> SUFFICES ASSUME NEW d \in Call, shown[d] # None, ~slipped
               PROVE  shown[d] = <<d, record'[d]>>
    BY <1>2 DEF OwnResult, lists
  <2>1. d # c
    BY <1>4
  <2> QED
    BY <1>1, <1>2, <2>1 DEF OwnResult
<1>7. Records'
  <2> SUFFICES ASSUME NEW d \in Call
               PROVE  /\ outcome'[d] \in {None, "open"} => starts[d] = 0
                      /\ record'[d] # None => record'[d] = outcome'[d]
                      /\ shown[d] # None => record'[d] # None
                      /\ InSeq(d, batch) => outcome'[d] # None
    BY <1>2 DEF Records, InSeq
  <2>1. None # "denied"
    BY NoneAssumption DEF Noted, Final
  <2> QED
    BY <1>1, <1>2, <2>1 DEF Records
<1>8. Earlier'
  BY <1>1, <1>2, <1>3 DEF Earlier, Answered, InSeq, Over
<1>9. Judging' /\ Running' /\ Answering'
  BY <1>2 DEF Judging, Running, Answering
<1>10. Verdicts'
  BY <1>1, <1>2 DEF Verdicts, InSeq
<1>11. Approvals'
  <2>1. verdict[c] = "user_approval" /\ Asked(c) => Asked(c)'
    BY <1>2, <1>3 DEF Asked, approval
  <2>2. \A d \in Call \ {c} : Asked(d) => Asked(d)'
    BY <1>2 DEF Asked, approval
  <2>3. /\ Injective(asks')
        /\ \A d \in Call : d \in refused' \/ InSeq(d, asks') =>
             InSeq(d, batch') /\ verdict'[d] = "user_approval"
        /\ asks' = <<>>
    BY <1>1, <1>2 DEF Approvals
  <2>4. \A d \in Call : InSeq(d, batch') =>
          /\ verdict'[d] = "run" => outcome'[d] = "open"
          /\ verdict'[d] = "auto_reply" => outcome'[d] \in {"open", "denied"}
          /\ verdict'[d] = "user_approval" => Asked(d)'
    BY <1>1, <1>2, <1>3, <2>1, <2>2 DEF Approvals
  <2> QED
    BY <1>2, <2>3, <2>4 DEF Approvals
<1> QED
  BY <1>5, <1>6, <1>7, <1>8, <1>9, <1>10, <1>11 DEF Stages

LEMMA ReportsDoneKeeps ==
  ASSUME Inv, ReportsDone
  PROVE  Prompts' /\ OwnResult' /\ Records' /\ Stages'
<1>1. /\ TypeOK /\ Prompts /\ OwnResult /\ Records /\ Earlier
  BY DEF Inv, Prompts
<1>2. /\ phase = "reporting" /\ phase' = "starting" /\ ran' = <<>> /\ results' = <<>>
      /\ \A c \in Blocked : record[c] # None
      /\ shown' = [c \in Call |-> IF c \in Blocked THEN <<c, "denied">> ELSE shown[c]]
      /\ UNCHANGED <<batch, verdict, asks, refused, approval, outcome, starts, record, slipped>>
  BY DEF ReportsDone
<1>3. /\ \A c \in Blocked : /\ c \in Call /\ InSeq(c, batch)
                            /\ record[c] = "denied" /\ outcome[c] = "denied"
                            /\ verdict[c] = "auto_reply" \/ (verdict[c] = "user_approval" /\ c \in refused)
      /\ \A c \in Call : InSeq(c, batch) /\ c \notin Blocked =>
           /\ Allowed(c) /\ outcome[c] = "open"
           /\ verdict[c] = "run" \/ c \in Judged("user_approval") \ refused
  BY <1>2, WhenReporting
<1>4. Injective(left') /\ \A c \in Call : InSeq(c, left') <=> InSeq(c, batch) /\ c \notin Blocked
  <2>1. PICK f \in AsIssued(Judged("run")), g \in Orders(Judged("user_approval") \ refused) :
          left' = f \o g
    BY DEF ReportsDone, Remaining
  <2>2. /\ f \in Seq(Call) /\ Injective(f)
        /\ \A c : InSeq(c, f) <=> c \in Call /\ InSeq(c, batch) /\ verdict[c] = "run"
    BY OrdersHave, JudgedIn DEF AsIssued
  <2>3. /\ g \in Seq(Call) /\ Injective(g)
        /\ \A c : InSeq(c, g) <=> c \in Judged("user_approval") \ refused
    BY OrdersHave, JudgedIn
  <2>4. \A c : c \in Judged("user_approval") <=> c \in Call /\ InSeq(c, batch) /\ verdict[c] = "user_approval"
    BY JudgedIn
  <2>5. \A x : ~(InSeq(x, f) /\ InSeq(x, g))
    BY <2>2, <2>3, <2>4
  <2>6. Injective(left') /\ \A c \in Call : InSeq(c, left') <=> InSeq(c, f) \/ InSeq(c, g)
    BY <2>1, <2>2, <2>3, <2>5, InConcat
  <2>7. \A c \in Call : InSeq(c, f) \/ InSeq(c, g) <=> InSeq(c, batch) /\ c \notin Blocked
    BY <1>3, <2>2, <2>3, <2>4
  <2> QED
    BY <2>6, <2>7
<1>5. \A c \in Call : ~InSeq(c, ran') /\ (~InSeq(c, batch) => shown'[c] = shown[c])
  BY <1>2, <1>3 DEF InSeq
<1>6. None # "denied" /\ "denied" \in Final /\ \A c \in Call : <<c, "denied">> # None
  <2>1. \A c \in Call : <<c, "denied">> \in Call \X Noted
    BY DEF Noted, Final
  <2> QED
    BY <2>1, NoneAssumption DEF Noted, Final
<1>7. Prompts'
  BY <1>1, <1>2, PromptsStand DEF approval
<1>8. OwnResult'
  BY <1>1, <1>2, <1>3 DEF OwnResult
<1>9. Records'
  <2> SUFFICES ASSUME NEW d \in Call
               PROVE  /\ outcome[d] \in {None, "open"} => starts[d] = 0
                      /\ record[d] # None => record[d] = outcome[d]
                      /\ shown'[d] # None => record[d] # None
                      /\ InSeq(d, batch) => outcome[d] # None
    BY <1>2 DEF Records, InSeq
  <2> QED
    BY <1>1, <1>2 DEF Records
<1>10. Earlier'
  BY <1>1, <1>2, <1>5 DEF Earlier, Answered, InSeq, Over
<1>11. Judging' /\ Verdicts' /\ Approvals' /\ Answering'
  BY <1>2 DEF Judging, Verdicts, Approvals, Answering
<1>12. Running'
  <2>1. ToRun'
    <3>1. \A c \in Call : Allowed(c) => Allowed(c)'
      BY <1>2 DEF Allowed, approval
    <3>2. \A c \in Call : InSeq(c, left') =>
            InSeq(c, batch') /\ Allowed(c)' /\ outcome'[c] = "open"
      BY <1>2, <1>3, <1>4, <3>1
    <3> QED
      BY <1>2, <1>4, <3>2 DEF ToRun
  <2>2. HasRun'
    <3> SUFFICES ASSUME NEW c \in Call, InSeq(c, batch), ~InSeq(c, left')
                 PROVE  outcome'[c] \in Final /\ record'[c] = outcome'[c] /\ shown'[c] # None
      BY <1>2 DEF HasRun
    <3>1. c \in Blocked
      BY <1>4
    <3> QED
      BY <1>2, <1>3, <1>6, <3>1
  <2>3. Noting'
    <3>1. Len(ran') = 0 /\ Len(results') = 0
      BY <1>2
    <3> QED
      BY <1>5, <3>1 DEF Noting
  <2> QED
    BY <2>1, <2>2, <2>3 DEF Running
<1> QED
  BY <1>7, <1>8, <1>9, <1>10, <1>11, <1>12 DEF Stages

-----------------------------------------------------------------------------
(* Tools *)

(* The call at the head of the queue.                                      *)
LEMMA HeadToRun ==
  ASSUME Inv, phase \in {"starting", "tool"}, left # <<>>
  PROVE  /\ Head(left) \in Call /\ InSeq(Head(left), left) /\ InSeq(Head(left), batch)
         /\ Allowed(Head(left))
         /\ outcome[Head(left)] = IF phase = "tool" THEN "started" ELSE "open"
         /\ \A c \in Call : InSeq(c, left) <=> c = Head(left) \/ InSeq(c, Tail(left))
         /\ Injective(Tail(left)) /\ ~InSeq(Head(left), Tail(left))
         /\ record[Head(left)] = None /\ shown[Head(left)] = None
         /\ ~InSeq(Head(left), ran)
<1>1. TypeOK /\ ToRun /\ Noting /\ Records
  BY DEF Inv, Running
<1>2. /\ Head(left) \in Call /\ InSeq(Head(left), left)
      /\ \A x : InSeq(x, Tail(left)) => InSeq(x, left)
      /\ \A x : InSeq(x, left) => x = Head(left) \/ InSeq(x, Tail(left))
      /\ Injective(left) => Injective(Tail(left)) /\ ~InSeq(Head(left), Tail(left))
  BY <1>1, InTail DEF TypeOK
<1>3. /\ Injective(left) /\ InSeq(Head(left), batch) /\ Allowed(Head(left))
      /\ outcome[Head(left)] = IF phase = "tool" THEN "started" ELSE "open"
  BY <1>1, <1>2 DEF ToRun
<1>4. record[Head(left)] = None
  <2>1. record[Head(left)] \in {None} \cup Final /\ outcome[Head(left)] \notin Final
    BY <1>1, <1>2, <1>3 DEF TypeOK, Final
  <2> QED
    BY <1>1, <1>2, <2>1 DEF Records
<1>5. shown[Head(left)] = None /\ ~InSeq(Head(left), ran)
  BY <1>1, <1>2, <1>4 DEF Records, Noting
<1> QED
  BY <1>2, <1>3, <1>4, <1>5

(* A call ends: the lists grow by one result of its own, or by two and the *)
(* positions have slipped.                                                 *)
LEMMA EndsKeeps ==
  ASSUME Inv, phase \in {"starting", "tool"}, left # <<>>,
         NEW o \in Final, NEW notes \in Seq(Call \X Noted), Ends(o, notes),
         Len(notes) > 0,
         \/ notes = <<Note(o)>> /\ slipped' = slipped
         \/ slipped' = TRUE
  PROVE  Prompts' /\ OwnResult' /\ Records' /\ Stages'
<1> PICK h \in Call : h = Head(left)
  BY HeadToRun
<1>1. /\ TypeOK /\ Prompts /\ OwnResult /\ Records /\ Earlier /\ ToRun /\ HasRun /\ Noting
  BY DEF Inv, Prompts, Running
<1>2. /\ InSeq(h, left) /\ InSeq(h, batch) /\ Allowed(h)
      /\ outcome[h] \in {"started", "open"} /\ record[h] = None /\ shown[h] = None
      /\ \A c \in Call : InSeq(c, left) <=> c = h \/ InSeq(c, left')
      /\ Injective(left') /\ ~InSeq(h, left') /\ ~InSeq(h, ran)
  BY HeadToRun DEF Ends
<1>3. /\ phase' = "starting" /\ ran' = Append(ran, h) /\ results' = results \o notes
      /\ outcome'[h] = o /\ record'[h] = o
      /\ \A d \in Call \ {h} : outcome'[d] = outcome[d] /\ record'[d] = record[d]
      /\ UNCHANGED <<batch, verdict, asks, refused, approval, starts, shown>>
  BY <1>1 DEF Ends, TypeOK
<1>4. o # None /\ o \notin {None, "open"}
  BY NoneAssumption DEF Final, Noted
<1>5. Prompts'
  BY <1>1, <1>3, PromptsStand DEF approval
<1>6. OwnResult'
  <2> SUFFICES ASSUME NEW d \in Call, shown[d] # None, ~slipped'
               PROVE  shown[d] = <<d, record'[d]>>
    BY <1>3 DEF OwnResult
  <2>1. d # h /\ ~slipped
    BY <1>2
  <2> QED
    BY <1>1, <1>3, <2>1 DEF OwnResult
<1>7. Records'
  <2> SUFFICES ASSUME NEW d \in Call
               PROVE  /\ outcome'[d] \in {None, "open"} => starts[d] = 0
                      /\ record'[d] # None => record'[d] = outcome'[d]
                      /\ shown[d] # None => record'[d] # None
                      /\ InSeq(d, batch) => outcome'[d] # None
    BY <1>3 DEF Records, InSeq
  <2> QED
    BY <1>1, <1>3, <1>4 DEF Records
<1>8. Earlier'
  <2> SUFFICES ASSUME NEW c \in Call, ~InSeq(c, batch), outcome'[c] # None
               PROVE  Answered(c)'
    BY <1>3 DEF Earlier, InSeq
  <2>1. c # h
    BY <1>2
  <2>2. Answered(c)
    BY <1>1, <1>3, <2>1 DEF Earlier, Over
  <2> QED
    BY <1>3, <2>1, <2>2 DEF Answered
<1>9. Judging' /\ Verdicts' /\ Approvals' /\ Answering'
  BY <1>3 DEF Judging, Verdicts, Approvals, Answering
<1>10. /\ Len(ran') = Len(ran) + 1 /\ \A c \in Call : InSeq(c, ran') <=> InSeq(c, ran) \/ c = h
       /\ ran'[Len(ran) + 1] = h /\ \A i \in 1 .. Len(ran) : ran'[i] = ran[i] /\ ran[i] # h
  <2>1. ran \in Seq(Call)
    BY <1>1 DEF TypeOK
  <2>2. \A i \in 1 .. Len(ran) : ran[i] # h
    BY <1>2 DEF InSeq
  <2> QED
    BY <1>3, <2>1, <2>2, InAppend
<1>11. ToRun'
  <2>1. \A c \in Call : Allowed(c) => Allowed(c)'
    BY <1>3 DEF Allowed, approval
  <2>2. \A c \in Call : InSeq(c, left') => c # h /\ InSeq(c, left) /\ c # Head(left)
    BY <1>2
  <2>3. \A c \in Call : InSeq(c, left') => InSeq(c, batch') /\ Allowed(c)' /\ outcome'[c] = "open"
    BY <1>1, <1>3, <2>1, <2>2 DEF ToRun
  <2> QED
    BY <1>2, <1>3, <2>3 DEF ToRun
<1>12. HasRun'
  <2> SUFFICES ASSUME NEW c \in Call, InSeq(c, batch), ~InSeq(c, left')
               PROVE  /\ outcome'[c] \in Final /\ record'[c] = outcome'[c]
                      /\ shown[c] # None \/ InSeq(c, ran')
    BY <1>3 DEF HasRun
  <2> QED
    BY <1>1, <1>2, <1>3, <1>10 DEF HasRun
<1>13. Noting'
  <2>1. /\ results \in Seq(Call \X Noted) /\ Len(ran) \in Nat /\ Len(results) \in Nat
        /\ Len(notes) \in Nat
    BY <1>1 DEF TypeOK
  <2>2. Len(results') = Len(results) + Len(notes)
    BY <1>3, <2>1
  <2>3. Len(ran') <= Len(results')
    BY <1>1, <1>10, <2>1, <2>2 DEF Noting
  <2>4. \A c \in Call : InSeq(c, ran') => record'[c] # None
    BY <1>1, <1>3, <1>4, <1>10 DEF Noting
  <2>5. ASSUME ~slipped'
        PROVE  /\ \A i \in 1 .. Len(ran') : results'[i] = <<ran'[i], record'[ran'[i]]>>
               /\ Len(results') = Len(ran')
    <3>1. /\ notes = <<Note(o)>> /\ Len(results) = Len(ran)
          /\ \A i \in 1 .. Len(ran) : results[i] = <<ran[i], record[ran[i]]>>
      BY <1>1, <2>5 DEF Noting
    <3>2. Len(notes) = 1 /\ notes[1] = <<h, o>>
      BY <3>1 DEF Note
    <3>3. Len(results') = Len(ran')
      BY <1>10, <2>1, <2>2, <3>1, <3>2
    <3>4. /\ \A i \in 1 .. Len(ran) : results'[i] = results[i]
          /\ results'[Len(ran) + 1] = <<h, o>>
      BY <1>3, <2>1, <3>1, <3>2
    <3>5. ASSUME NEW i \in 1 .. Len(ran) PROVE results'[i] = <<ran'[i], record'[ran'[i]]>>
      <4>1. ran[i] \in Call \ {h}
        <5>1. ran \in Seq(Call)
          BY <1>1 DEF TypeOK
        <5> QED
          BY <1>10, <5>1
      <4> QED
        BY <1>3, <1>10, <3>1, <3>4, <4>1
    <3>6. results'[Len(ran) + 1] = <<ran'[Len(ran) + 1], record'[ran'[Len(ran) + 1]]>>
      BY <1>3, <1>10, <3>4
    <3>7. \A i \in 1 .. Len(ran') : i \in 1 .. Len(ran) \/ i = Len(ran) + 1
      BY <1>10, <2>1
    <3> QED
      BY <3>3, <3>5, <3>6, <3>7
  <2> QED
    BY <2>3, <2>4, <2>5 DEF Noting
<1>14. Running'
  BY <1>11, <1>12, <1>13 DEF Running
<1> QED
  BY <1>5, <1>6, <1>7, <1>8, <1>9, <1>14 DEF Stages

LEMMA ToolEndsKeeps ==
  ASSUME Inv, ToolEnds
  PROVE  Prompts' /\ OwnResult' /\ Records' /\ Stages'
<1>1. phase = "tool" /\ left # <<>> /\ Head(left) \in Call
  <2>1. phase = "tool"
    BY DEF ToolEnds, ToolReturns, ResultUnwritable, ArtifactsFail
  <2> QED
    BY <2>1, HeadOfLeft DEF Inv
<1>2. \A n, m \in Noted :
        /\ <<Note(n)>> \in Seq(Call \X Noted) /\ Len(<<Note(n)>>) > 0
        /\ <<Note(n), Note(m)>> \in Seq(Call \X Noted) /\ Len(<<Note(n), Note(m)>>) > 0
  <2>1. \A n \in Noted : Note(n) \in Call \X Noted
    BY <1>1 DEF Note
  <2> QED
    BY <2>1
<1>3. "bad" \in Noted /\ "failed" \in Final /\ "completed" \in Final /\ Final \subseteq Noted
  BY DEF Noted, Final
<1>4. ASSUME NEW o \in {"completed", "failed"}, ToolReturns(o)
      PROVE  Prompts' /\ OwnResult' /\ Records' /\ Stages'
  <2>1. o \in Final /\ Ends(o, <<Note(o)>>) /\ slipped' = slipped
    BY <1>3, <1>4 DEF ToolReturns
  <2> QED
    BY <1>1, <1>2, <1>3, <2>1, EndsKeeps
<1>5. CASE ResultUnwritable
  <2>1. Ends("failed", <<Note("bad"), Note("failed")>>) /\ slipped' = TRUE
    BY <1>5 DEF ResultUnwritable
  <2> QED
    BY <1>1, <1>2, <1>3, <2>1, EndsKeeps
<1>6. CASE ArtifactsFail
  <2>1. Ends("completed", <<Note("completed"), Note("failed")>>) /\ slipped' = TRUE
    BY <1>6 DEF ArtifactsFail
  <2> QED
    BY <1>1, <1>2, <1>3, <2>1, EndsKeeps
<1> QED
  BY <1>4, <1>5, <1>6 DEF ToolEnds

LEMMA UnknownToolKeeps ==
  ASSUME Inv, UnknownTool
  PROVE  Prompts' /\ OwnResult' /\ Records' /\ Stages'
<1>1. phase = "starting" /\ left # <<>> /\ slipped' = slipped /\ Ends("failed", <<Note("failed")>>)
  BY DEF UnknownTool
<1>2. Head(left) \in Call
  BY <1>1, HeadToRun
<1>3. "failed" \in Final /\ <<Note("failed")>> \in Seq(Call \X Noted) /\ Len(<<Note("failed")>>) > 0
  BY <1>2 DEF Note, Noted, Final
<1> QED
  BY <1>1, <1>3, EndsKeeps

LEMMA StartToolKeeps ==
  ASSUME Inv, StartTool
  PROVE  Prompts' /\ OwnResult' /\ Records' /\ Stages'
<1> PICK h \in Call : h = Head(left)
  BY HeadToRun DEF StartTool
<1>1. /\ TypeOK /\ Prompts /\ OwnResult /\ Records /\ Earlier /\ ToRun /\ HasRun /\ Noting
  BY DEF Inv, Prompts, Running, StartTool
<1>2. /\ phase = "starting" /\ phase' = "tool" /\ left # <<>>
      /\ outcome'[h] = "started" /\ starts'[h] = starts[h] + 1
      /\ \A d \in Call \ {h} : outcome'[d] = outcome[d] /\ starts'[d] = starts[d]
      /\ UNCHANGED <<batch, verdict, asks, refused, left, approval, history, lists>>
  BY <1>1 DEF StartTool, TypeOK
<1>3. /\ InSeq(h, left) /\ InSeq(h, batch) /\ Allowed(h) /\ outcome[h] = "open"
      /\ record[h] = None /\ shown[h] = None
  BY <1>2, HeadToRun
<1>4. Prompts'
  <2>1. StartedWasAllowed'
    <3> SUFFICES ASSUME NEW d \in Call, starts'[d] > 0
                 PROVE  /\ verdict[d] # "auto_reply"
                        /\ verdict[d] = "user_approval" =>
                             /\ prompt[d] = "approved"
                             /\ \A i \in DOMAIN stored : stored[i].call = d => stored[i].state = "approved"
      BY <1>2 DEF StartedWasAllowed, approval
    <3>1. CASE d # h
      BY <1>1, <1>2, <3>1 DEF Prompts, StartedWasAllowed
    <3>2. CASE d = h
      <4>1. verdict[d] # "auto_reply" /\ (verdict[d] = "user_approval" => prompt[d] = "approved")
        BY <1>3, <3>2 DEF Allowed
      <4>2. \A i \in DOMAIN stored : stored[i].state = prompt[stored[i].call]
        BY <1>1, <1>2 DEF Prompts, PromptsAgree
      <4> QED
        BY <4>1, <4>2
    <3> QED
      BY <3>1, <3>2
  <2>2. PromptsAgree'
    BY <1>1, <1>2 DEF Prompts, PromptsAgree, approval
  <2> QED
    BY <2>1, <2>2 DEF Prompts
<1>5. OwnResult'
  BY <1>1, <1>2 DEF OwnResult, history, lists
<1>6. Records'
  <2> SUFFICES ASSUME NEW d \in Call
               PROVE  /\ outcome'[d] \in {None, "open"} => starts'[d] = 0
                      /\ record[d] # None => record[d] = outcome'[d]
                      /\ shown[d] # None => record[d] # None
                      /\ InSeq(d, batch) => outcome'[d] # None
    BY <1>2 DEF Records, InSeq, history
  <2> QED
    BY <1>1, <1>2, <1>3, NoneAssumption DEF Records
<1>7. Earlier'
  BY <1>1, <1>2, <1>3 DEF Earlier, Answered, InSeq, history, Over
<1>8. Judging' /\ Verdicts' /\ Approvals' /\ Answering'
  BY <1>2 DEF Judging, Verdicts, Approvals, Answering
<1>9. Running'
  <2>1. ToRun'
    <3>1. \A c \in Call : Allowed(c) => Allowed(c)'
      BY <1>2 DEF Allowed, approval
    <3>2. \A c \in Call : InSeq(c, left) =>
            /\ InSeq(c, batch') /\ Allowed(c)'
            /\ outcome'[c] = IF c = h THEN "started" ELSE "open"
      BY <1>1, <1>2, <3>1 DEF ToRun, InSeq
    <3>3. Injective(left) /\ left' = left /\ Head(left') = h
      BY <1>1, <1>2 DEF ToRun
    <3> QED
      BY <1>2, <3>2, <3>3 DEF ToRun
  <2>2. HasRun'
    BY <1>1, <1>2, <1>3 DEF HasRun, InSeq, history, lists
  <2>3. Noting'
    BY <1>1, <1>2 DEF Noting, InSeq, history, lists
  <2> QED
    BY <2>1, <2>2, <2>3 DEF Running
<1> QED
  BY <1>4, <1>5, <1>6, <1>7, <1>8, <1>9 DEF Stages

(* Every call of the turn has been answered when the batch is done.        *)
LEMMA BatchDoneKeeps ==
  ASSUME Inv, BatchDone
  PROVE  Prompts' /\ OwnResult' /\ Records' /\ Stages'
<1>1. /\ TypeOK /\ Prompts /\ OwnResult /\ Records /\ Earlier /\ HasRun /\ Noting
  BY DEF Inv, Prompts, Running, BatchDone
<1>2. /\ phase = "starting" /\ phase' = "post hooks" /\ left = <<>> /\ shown' = Pairs
      /\ UNCHANGED <<batch, verdict, asks, refused, left, approval, outcome, starts, record, lists>>
  BY DEF BatchDone
<1>3. \A c \in Call : IF InSeq(c, ran)
        THEN /\ shown'[c] # None
             /\ ~slipped => shown'[c] = <<c, record[c]>>
        ELSE shown'[c] = shown[c]
  <2>1. \A x \in Call \X Noted : x # None
    BY NoneAssumption
  <2>2. ~slipped => \A i \in 1 .. Len(ran) : results[i] = <<ran[i], record[ran[i]]>>
    BY <1>1 DEF Noting
  <2> QED
    BY <1>1, <1>2, <2>1, <2>2, PairsHave
<1>4. Prompts'
  BY <1>1, <1>2, PromptsStand DEF approval
<1>5. OwnResult'
  BY <1>1, <1>2, <1>3 DEF OwnResult, lists
<1>6. Records'
  BY <1>1, <1>2, <1>3 DEF Records, Noting, InSeq
<1>7. \A c \in Call : Answered(c) => Answered(c)'
  BY <1>2, <1>3 DEF Answered
<1>8. Earlier'
  BY <1>1, <1>2, <1>7 DEF Earlier, InSeq, Over
<1>9. Judging' /\ Verdicts' /\ Approvals' /\ Running'
  BY <1>2 DEF Judging, Verdicts, Approvals, Running
<1>10. Answering'
  <2> SUFFICES ASSUME NEW c \in Call, InSeq(c, batch) PROVE Answered(c)'
    BY <1>2 DEF Answering, InSeq
  <2>1. ~InSeq(c, left)
    BY <1>2, NotInEmpty
  <2> QED
    BY <1>1, <1>2, <1>3, <2>1 DEF HasRun, Answered
<1> QED
  BY <1>4, <1>5, <1>6, <1>8, <1>9, <1>10 DEF Stages

LEMMA NextTurnKeeps ==
  ASSUME Inv, NextTurn
  PROVE  Prompts' /\ OwnResult' /\ Records' /\ Stages'
<1>1. /\ TypeOK /\ Prompts /\ OwnResult /\ Records /\ Earlier /\ Answering
  BY DEF Inv, Prompts
<1>2. /\ phase = "post hooks" /\ phase' = "model" /\ batch' = <<>>
      /\ UNCHANGED <<verdict, asks, refused, left, approval, outcome, starts, history, lists>>
  BY DEF NextTurn
<1>3. \A c \in Call : ~InSeq(c, batch')
  BY <1>2, NotInEmpty
<1>4. Prompts'
  BY <1>1, <1>2, PromptsStand DEF approval
<1>5. OwnResult'
  BY <1>1, <1>2 DEF OwnResult, history, lists
<1>6. Records'
  BY <1>1, <1>2, <1>3 DEF Records, history
<1>7. Earlier'
  <2>1. \A c \in Call : outcome[c] # None => Answered(c)
    BY <1>1, <1>2 DEF Earlier, Answering, Over
  <2>2. \A c \in Call : Answered(c) => Answered(c)'
    BY <1>2 DEF Answered, history
  <2> QED
    BY <1>2, <2>1, <2>2 DEF Earlier
<1>8. Judging'
  BY <1>2, <1>3 DEF Judging
<1>9. Verdicts' /\ Approvals' /\ Running' /\ Answering'
  BY <1>2 DEF Verdicts, Approvals, Running, Answering
<1> QED
  BY <1>4, <1>5, <1>6, <1>7, <1>8, <1>9 DEF Stages

-----------------------------------------------------------------------------
(* Steps that only note a stop or a deadline, and the end of the run *)

LEMMA NotedKeeps ==
  ASSUME Inv, phase # "crashed", phase' = phase,
         UNCHANGED <<batch, verdict, asks, refused, left, prompt, stored, outcome, starts,
                     history, lists>>
  PROVE  Prompts' /\ OwnResult' /\ Records' /\ Stages'
<1>1. /\ TypeOK /\ Prompts /\ OwnResult /\ Records /\ Stages
  BY InvSplit
<1>2. Prompts'
  BY <1>1, PromptsStand
<1>3. OwnResult' /\ Records'
  BY <1>1 DEF OwnResult, Records, InSeq, history, lists
<1>4. Earlier' /\ Judging' /\ Verdicts' /\ Answering'
  BY <1>1 DEF Stages, Earlier, Judging, Verdicts, Answering, Answered, InSeq, history
<1>5. Approvals'
  BY <1>1 DEF Stages, Approvals, Asked, Injective, InSeq
<1>6. Running'
  BY <1>1 DEF Stages, Running, ToRun, HasRun, Noting, Allowed, Injective, InSeq, history, lists
<1> QED
  BY <1>2, <1>3, <1>4, <1>5, <1>6 DEF Stages

(* The task ends while nobody is asked.                                    *)
LEMMA EndsWithKeeps ==
  ASSUME Inv, phase \notin Over \cup {"waiting"}, NEW s, EndsWith(s),
         UNCHANGED <<batch, verdict, prompt, stored, starts, history, slipped>>
  PROVE  Prompts' /\ OwnResult' /\ Records' /\ Stages'
<1>1. TypeOK /\ Prompts /\ OwnResult /\ Records
  BY InvSplit
<1>2. phase' = "over" /\ phase' \in Over /\ phase # "crashed" /\ outcome' = Abandoned
  BY DEF EndsWith, Over
<1>3. Prompts'
  BY <1>1, <1>2, PromptsStand
<1> QED
  BY <1>1, <1>2, <1>3, EndingKeeps

LEMMA StopDeliveredKeeps ==
  ASSUME Inv, StopDelivered
  PROVE  Prompts' /\ OwnResult' /\ Records' /\ Stages'
<1>1. TypeOK /\ Prompts /\ OwnResult /\ Records /\ Approvals
  BY DEF Inv, Prompts
<1>2. /\ phase' = "over" /\ phase' \in Over /\ phase # "crashed" /\ outcome' = Abandoned
      /\ UNCHANGED <<batch, verdict, starts, history, slipped>>
  BY DEF StopDelivered, EndsWith, Over, Suspended, lists
<1>3. CASE phase # "waiting"
  <2>1. UNCHANGED <<prompt, stored>>
    BY <1>3 DEF StopDelivered, approval
  <2>2. Prompts'
    BY <1>1, <1>2, <1>3, <2>1, PromptsStand
  <2> QED
    BY <1>1, <1>2, <2>2, EndingKeeps
<1>4. CASE phase = "waiting"
  <2>1. /\ asks # <<>> /\ Head(asks) \in Call /\ starts[Head(asks)] = 0
    BY <1>1, <1>4, HeadOfAsks, HeadAsked
  <2>2. /\ prompt' = [prompt EXCEPT ![Head(asks)] = "cancelled"]
        /\ stored' = Upsert(Head(asks), "cancelled")
    BY <1>4 DEF StopDelivered, Settle
  <2>3. \A d \in Call : prompt[d] = "pending" => d = Head(asks)
    BY <1>1, <1>2 DEF Prompts, PromptsAgree
  <2>4. Prompts'
    BY <1>1, <1>2, <2>1, <2>2, <2>3, PromptSet DEF Settled
  <2> QED
    BY <1>1, <1>2, <2>4, EndingKeeps
<1> QED
  BY <1>3, <1>4

(* After a crash only the session file speaks of the approvals.            *)
LEMMA CrashKeeps ==
  ASSUME Inv, Crash
  PROVE  Prompts' /\ OwnResult' /\ Records' /\ Stages'
<1>1. TypeOK /\ Prompts /\ OwnResult /\ Records
  BY InvSplit
<1>2. /\ phase' = "crashed" /\ phase' \in Over /\ phase # "crashed" /\ outcome' = Abandoned
      /\ UNCHANGED <<batch, verdict, stored, starts, history, slipped>>
  BY DEF Crash, Over, lists
<1>3. Prompts'
  BY <1>1, <1>2 DEF Prompts, StartedWasAllowed, PromptsAgree
<1> QED
  BY <1>1, <1>2, <1>3, EndingKeeps

-----------------------------------------------------------------------------
(* The invariant *)

LEMMA InitInv == Init => Inv
<1> SUFFICES ASSUME Init PROVE Inv
  OBVIOUS
<1>1. /\ batch = <<>> /\ asks = <<>> /\ left = <<>> /\ stored = <<>> /\ ran = <<>> /\ results = <<>>
      /\ phase = "model" /\ slipped = FALSE /\ refused = {}
      /\ \A c \in Call : /\ prompt[c] = None /\ outcome[c] = None /\ starts[c] = 0
                         /\ record[c] = None /\ shown[c] = None /\ ~InSeq(c, batch)
  BY NotInEmpty DEF Init
<1>2. TypeOK
  <2>1. /\ batch \in Seq(Call) /\ asks \in Seq(Call) /\ left \in Seq(Call) /\ ran \in Seq(Call)
        /\ stored \in Seq([call: Call, state: {"pending"} \cup Settled])
        /\ results \in Seq(Call \X Noted)
    BY <1>1
  <2>2. 1 \in 1 .. MaxTurns
    BY BoundsAssumption
  <2> QED
    BY <2>1, <2>2 DEF Init, TypeOK, Suspended
<1>3. Prompts
  <2>1. DOMAIN stored = {} /\ None # "pending"
    BY <1>1, NoneAssumption
  <2> QED
    BY <1>1, <2>1 DEF Prompts, StartedWasAllowed, PromptsAgree
<1>4. OwnResult /\ Records
  BY <1>1 DEF OwnResult, Records
<1>5. Stages
  BY <1>1 DEF Stages, Earlier, Judging, Verdicts, Approvals, Running, Answering
<1> QED
  BY <1>2, <1>3, <1>4, <1>5, InvSplit

LEMMA StepInv == Inv /\ [Next]_vars => Inv'
<1> SUFFICES ASSUME Inv, [Next]_vars PROVE Inv'
  OBVIOUS
<1>1. CASE Next
  <2>1. TypeOK'
    BY <1>1, TypesKept DEF Inv
  <2> SUFFICES Prompts' /\ OwnResult' /\ Records' /\ Stages'
    BY <2>1 DEF Inv, Prompts, Stages
  <2>2. ASSUME NEW c \in Call, CallIssued(c) PROVE Prompts' /\ OwnResult' /\ Records' /\ Stages'
    BY <2>2, CallIssuedKeeps
  <2>3. CASE GuardrailsJudge
    BY <2>3, JudgeKeeps
  <2>4. CASE HooksDone
    BY <2>4, HooksDoneKeeps
  <2>5. CASE Ask
    BY <2>5, AskedKeeps DEF Ask
  <2>6. ASSUME NEW c \in Call, NEW yes \in BOOLEAN, Decide(c, yes)
        PROVE  Prompts' /\ OwnResult' /\ Records' /\ Stages'
    <3>1. phase = "waiting" /\ c = Head(asks) /\ asks # <<>>
      BY <2>6, HeadOfAsks DEF Decide, Inv
    <3>2. PICK s \in {"approved", "denied"} :
            prompt' = [prompt EXCEPT ![c] = s] /\ stored' = Upsert(c, s)
      BY <2>6 DEF Decide
    <3> QED
      BY <2>6, <3>1, <3>2, AskedKeeps DEF Decide, Settled
  <2>7. CASE ApprovalGranted
    BY <2>7, SettledKeeps DEF ApprovalGranted, Settled
  <2>8. CASE ApprovalRefused
    BY <2>8, SettledKeeps DEF ApprovalRefused, Settled
  <2>9. CASE AsksDone
    BY <2>9, AsksDoneKeeps
  <2>10. ASSUME NEW c \in Call, ReportBlocked(c)
         PROVE  Prompts' /\ OwnResult' /\ Records' /\ Stages'
    BY <2>10, ReportBlockedKeeps
  <2>11. CASE ReportsDone
    BY <2>11, ReportsDoneKeeps
  <2>12. CASE UnknownTool
    BY <2>12, UnknownToolKeeps
  <2>13. CASE StartTool
    BY <2>13, StartToolKeeps
  <2>14. CASE ToolEnds
    BY <2>14, ToolEndsKeeps
  <2>15. CASE BatchDone
    BY <2>15, BatchDoneKeeps
  <2>16. CASE NextTurn
    BY <2>16, NextTurnKeeps
  <2>17. CASE DeadlineFires \/ Stop
    <3>1. /\ phase # "crashed" /\ phase' = phase
          /\ UNCHANGED <<batch, verdict, asks, refused, left, prompt, stored, outcome, starts,
                         history, lists>>
      BY <2>17 DEF DeadlineFires, Stop, Suspended, approval
    <3> QED
      BY <3>1, NotedKeeps
  <2>18. CASE ModelFinishes \/ ModelFails \/ HooksFail \/ BatchUnwritable \/ TurnsExhausted
    <3>1. /\ phase \notin Over \cup {"waiting"} /\ \E s : EndsWith(s)
          /\ UNCHANGED <<batch, verdict, prompt, stored, starts, history, slipped>>
      BY <2>18 DEF ModelFinishes, ModelFails, HooksFail, BatchUnwritable, TurnsExhausted,
         Over, approval, lists
    <3> QED
      BY <3>1, EndsWithKeeps
  <2>19. CASE StopDelivered
    BY <2>19, StopDeliveredKeeps
  <2>20. CASE Crash
    BY <2>20, CrashKeeps
  <2> QED
    BY <1>1, <2>2, <2>3, <2>4, <2>5, <2>6, <2>7, <2>8, <2>9, <2>10, <2>11, <2>12, <2>13,
       <2>14, <2>15, <2>16, <2>17, <2>18, <2>19, <2>20 DEF Next, Work
<1>2. CASE UNCHANGED vars
  <2>0. TypeOK'
    BY <1>2 DEF Inv, vars, TypeOK, approval, history, lists
  <2>1. StartedWasAllowed' /\ PromptsAgree' /\ OwnResult'
    BY <1>2 DEF Inv, vars, StartedWasAllowed, PromptsAgree, OwnResult, approval, history, lists
  <2>2. Records' /\ Earlier' /\ Judging' /\ Verdicts' /\ Answering'
    BY <1>2 DEF Inv, vars, Records, Earlier, Judging, Verdicts, Answering, Answered, InSeq, history
  <2>3. Approvals'
    BY <1>2 DEF Inv, vars, Approvals, Asked, Injective, InSeq, approval
  <2>4. Running'
    BY <1>2 DEF Inv, vars, Running, ToRun, HasRun, Noting, Allowed, Injective, InSeq,
       approval, history, lists
  <2> QED
    BY <2>0, <2>1, <2>2, <2>3, <2>4 DEF Inv
<1> QED
  BY <1>1, <1>2

(* A turn goes through its stages as Inv describes them, however models,   *)
(* approvals, tools, stops and crashes interleave (_run_agent_loop).       *)
THEOREM InvHolds == Spec => []Inv
BY InitInv, StepInv, PTL DEF Spec

(* The state of the run, of its prompts and of its calls keeps its type.   *)
THEOREM TurnTypes == Spec => []TypeOK
<1>1. Inv => TypeOK
  BY DEF Inv
<1> QED
  BY <1>1, InvHolds, PTL

(* A tool has run only if its call needed no approval, or the user's       *)
(* approval stands in memory and in the session file.                      *)
THEOREM StartsWereAllowed == Spec => []StartedWasAllowed
<1>1. Inv => StartedWasAllowed
  BY DEF Inv
<1> QED
  BY <1>1, InvHolds, PTL

(* The prompts of the session file are those in memory, and none looks     *)
(* answerable but the one the task waits for, whatever the file's capacity *)
(* (upsert_pending_action, resolve_guardrail_action).                      *)
THEOREM PromptsAlwaysAgree == Spec => []PromptsAgree
<1>1. Inv => PromptsAgree
  BY DEF Inv
<1> QED
  BY <1>1, InvHolds, PTL

(* When the model speaks again, every earlier call is answered.            *)
THEOREM EarlierTurnsAnswered == Spec => []TurnsAnswered
<1>1. Inv => TurnsAnswered
  BY DEF Inv, Earlier, TurnsAnswered, Answered, Calls, Over
<1> QED
  BY <1>1, InvHolds, PTL

(* The model is told of a call what the session file says of it, unless a  *)
(* result was noted twice (build_tool_result_message).                     *)
THEOREM ResultsAreOwn == Spec => []OwnResult
<1>1. Inv => OwnResult
  BY DEF Inv
<1> QED
  BY <1>1, InvHolds, PTL

-----------------------------------------------------------------------------
(* The refinement: every step is a step of the tool-call ledger.           *)

(* The ledger's view of what is said of a call.                            *)
Told(c) == IF record[c] = None THEN None ELSE <<c, record[c]>>

(* A call ends, and its record says so at once or not yet.                 *)
LEMMA LedgerEnds ==
  ASSUME TypeOK, NEW c \in Call, NEW s \in Final, record[c] = None,
         Ledger!MayEnd(outcome[c], s) \/ outcome[c] = s,
         outcome' = [outcome EXCEPT ![c] = s],
         UNCHANGED record \/ record' = [record EXCEPT ![c] = s],
         UNCHANGED starts
  PROVE  Ledger!LedgerNext
<1> DEFINE told == [d \in Call |-> Told(d)]
<1>1. Ledger!Tell
  <2>1. CASE UNCHANGED record
    BY <2>1 DEF Ledger!Tell
  <2>2. CASE record' = [record EXCEPT ![c] = s]
    <3>1. record'[c] = s /\ s # None /\ \A d \in Call \ {c} : record'[d] = record[d]
      BY <2>2, NoneAssumption DEF TypeOK, Noted
    <3>2. told[c] = None /\ told' = [told EXCEPT ![c] = <<c, s>>]
      <4>1. Told(c) = None /\ Told(c)' = <<c, s>> /\ \A d \in Call \ {c} : Told(d)' = Told(d)
        BY <3>1 DEF Told
      <4> QED
        BY <4>1
    <3>3. outcome'[c] = s /\ s \in Ledger!Final
      BY DEF TypeOK, Final, Ledger!Final
    <3>4. told' = [told EXCEPT ![c] = <<c, outcome'[c]>>]
      BY <3>2, <3>3
    <3>5. told[c] = None /\ outcome'[c] \in Ledger!Final
      BY <3>2, <3>3
    <3> QED
      BY <3>4, <3>5 DEF Ledger!Tell, Told
  <2> QED
    BY <2>1, <2>2
<1>2. (\E d \in Call, o \in Ledger!Final : Ledger!Conclude(d, o)) \/ UNCHANGED <<outcome, starts>>
  <2>1. CASE Ledger!MayEnd(outcome[c], s)
    <3>1. Ledger!Conclude(c, s) /\ s \in Ledger!Final
      BY <2>1 DEF Ledger!Conclude, Ledger!Final, Final
    <3> QED
      BY <3>1
  <2>2. CASE outcome[c] = s
    BY <2>2 DEF TypeOK
  <2> QED
    BY <2>1, <2>2
<1> QED
  BY <1>1, <1>2 DEF Ledger!LedgerNext

LEMMA LedgerCrashes ==
  ASSUME outcome' = Abandoned, UNCHANGED <<starts, record>>
  PROVE  Ledger!LedgerNext
<1>1. Ledger!Crash
  BY DEF Ledger!Crash, Abandoned
<1> QED
  BY <1>1 DEF Ledger!LedgerNext

LEMMA EndsRefines ==
  ASSUME Inv, phase \in {"starting", "tool"}, left # <<>>,
         NEW o \in Final, NEW notes, Ends(o, notes),
         IF phase = "tool" THEN o # "denied" ELSE o \in {"denied", "failed", "unknown"}
  PROVE  Ledger!LedgerNext
<1> PICK h \in Call : h = Head(left)
  BY HeadToRun
<1>1. /\ TypeOK /\ record[h] = None
      /\ outcome[h] = IF phase = "tool" THEN "started" ELSE "open"
  BY HeadToRun DEF Inv
<1>2. Ledger!MayEnd(outcome[h], o)
  BY <1>1 DEF Ledger!MayEnd, Final
<1>3. /\ outcome' = [outcome EXCEPT ![h] = o] /\ record' = [record EXCEPT ![h] = o]
      /\ UNCHANGED starts
  BY DEF Ends
<1> QED
  BY <1>1, <1>2, <1>3, LedgerEnds

LEMMA NextRefines ==
  ASSUME Inv, Next PROVE Ledger!LedgerNext \/ UNCHANGED Ledger!ledger
<1>1. TypeOK /\ Records
  BY DEF Inv
<1>2. ASSUME UNCHANGED <<outcome, starts, record>> PROVE UNCHANGED Ledger!ledger
  BY <1>2 DEF Ledger!ledger
<1>3. ASSUME NEW c \in Call, CallIssued(c) PROVE Ledger!LedgerNext
  <2>1. Ledger!Open(c)
    BY <1>3 DEF CallIssued, Ledger!Open, history
  <2> QED
    BY <2>1 DEF Ledger!LedgerNext
<1>4. CASE \/ GuardrailsJudge \/ HooksDone \/ Ask \/ DeadlineFires \/ AsksDone \/ ReportsDone
           \/ BatchDone \/ NextTurn \/ Stop \/ \E c \in Call, yes \in BOOLEAN : Decide(c, yes)
           \/ ApprovalGranted
  <2>1. UNCHANGED <<outcome, starts, record>>
    BY <1>4 DEF GuardrailsJudge, HooksDone, Ask, DeadlineFires, AsksDone, ReportsDone, BatchDone,
       NextTurn, Stop, Decide, ApprovalGranted, Resumes, history
  <2> QED
    BY <1>2, <2>1
<1>5. CASE ApprovalRefused
  <2> PICK h \in Call : h = Head(asks)
    BY <1>1, <1>5, HeadOfAsks DEF ApprovalRefused, Resumes, Inv
  <2>1. phase = "waiting" /\ UNCHANGED <<starts, record>> /\ outcome' = [outcome EXCEPT ![h] = "denied"]
    BY <1>5 DEF ApprovalRefused, Resumes, history
  <2>2. outcome[h] = "open"
    BY <2>1, HeadOfAsks, HeadAsked DEF Inv
  <2>3. record[h] = None
    BY <1>1, <2>2 DEF Records, TypeOK, Final
  <2>4. "denied" \in Final /\ Ledger!MayEnd(outcome[h], "denied")
    BY <2>2 DEF Final, Ledger!MayEnd
  <2> QED
    BY <1>1, <2>1, <2>3, <2>4, LedgerEnds
<1>6. ASSUME NEW c \in Call, ReportBlocked(c) PROVE Ledger!LedgerNext
  <2>1. /\ record[c] = None /\ outcome[c] \in {"open", "denied"}
        /\ outcome' = [outcome EXCEPT ![c] = "denied"]
        /\ record' = [record EXCEPT ![c] = "denied"] /\ UNCHANGED starts
    BY <1>6, WhenReporting DEF ReportBlocked
  <2>2. "denied" \in Final /\ (Ledger!MayEnd(outcome[c], "denied") \/ outcome[c] = "denied")
    BY <2>1 DEF Final, Ledger!MayEnd
  <2> QED
    BY <1>1, <2>1, <2>2, LedgerEnds
<1>7. CASE UnknownTool
  BY <1>7, EndsRefines DEF UnknownTool, Final
<1>8. CASE ToolEnds
  <2>1. /\ phase = "tool" /\ left # <<>>
        /\ \E o \in {"completed", "failed"} : \E notes : Ends(o, notes)
    BY <1>8, HeadOfLeft DEF ToolEnds, ToolReturns, ResultUnwritable, ArtifactsFail, Inv
  <2> QED
    BY <2>1, EndsRefines DEF Final
<1>9. CASE StartTool
  <2> PICK h \in Call : h = Head(left)
    BY <1>9, HeadToRun DEF StartTool
  <2>1. outcome[h] = "open"
    BY <1>9, HeadToRun DEF StartTool
  <2>2. Ledger!Start(h)
    BY <1>9, <2>1 DEF StartTool, Ledger!Start, history
  <2> QED
    BY <2>2 DEF Ledger!LedgerNext
<1>10. CASE \/ ModelFinishes \/ ModelFails \/ HooksFail \/ BatchUnwritable \/ TurnsExhausted
            \/ StopDelivered \/ Crash
  <2>1. outcome' = Abandoned /\ UNCHANGED <<starts, record>>
    BY <1>10 DEF ModelFinishes, ModelFails, HooksFail, BatchUnwritable, TurnsExhausted,
       StopDelivered, Crash, EndsWith, history
  <2> QED
    BY <2>1, LedgerCrashes
<1> QED
  BY <1>3, <1>4, <1>5, <1>6, <1>7, <1>8, <1>9, <1>10 DEF Next, Work

(* An in-process run keeps the ledger the Hermes bridge keeps: a call is   *)
(* admitted once, started at most once, and ends once, as its record says. *)
THEOREM TurnKeepsLedger == Spec => CallsFollowLedger
<1>1. Init => Ledger!LedgerInit
  BY DEF Init, Ledger!LedgerInit
<1>2. Inv /\ [Next]_vars => [Ledger!LedgerNext]_(Ledger!ledger)
  <2> SUFFICES ASSUME Inv, [Next]_vars
               PROVE  Ledger!LedgerNext \/ UNCHANGED Ledger!ledger
    OBVIOUS
  <2>1. CASE UNCHANGED vars
    BY <2>1 DEF vars, history, Ledger!ledger
  <2> QED
    BY <2>1, NextRefines
<1> QED
  BY <1>1, <1>2, InvHolds, PTL DEF Spec, CallsFollowLedger, Ledger!LedgerSpec
=============================================================================
