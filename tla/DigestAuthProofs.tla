-------------------------- MODULE DigestAuthProofs --------------------------
(***************************************************************************)
(* Proofs about a digest auth object, for every set of threads, requests   *)
(* and nonces: how it counts the uses of a nonce, and what happens to the  *)
(* request that a thread sends right after it prepared it; and that no     *)
(* server keeps a call busy for ever.                                      *)
(***************************************************************************)
EXTENDS DigestAuth, TLAPS

-----------------------------------------------------------------------------
(* Types.                                                                  *)

(***************************************************************************)
(* With a saved nonce, __call__ builds a header from the saved challenge:  *)
(* there has to be one.                                                    *)
(***************************************************************************)
HasChallenge(l) == l.lastNonce # None => l.chal # None

DigestInv == TypeOK /\ \A t \in Threads : HasChallenge(local[t])

\* What build_digest_header returns and leaves behind.
LEMMA HeaderFacts ==
    ASSUME NEW t \in Threads, NEW l \in Locals, l.chal \in Challenges
    PROVE  /\ DigestHeader(t, l) \in Headers \cup {Null}
           /\ AfterHeader(l) \in Locals
           /\ AfterHeader(l).chal = l.chal
           /\ AfterHeader(l).init = l.init
           /\ AfterHeader(l).pos = l.pos
           /\ AfterHeader(l).calls = l.calls
<1>1. l.nonceCount \in Nat /\ l.chal.nonce \in Nonces
  BY DEF Locals, Challenges
<1>2. Count(l) \in Nat \ {0}
  BY <1>1 DEF Count
<1>3. DigestHeader(t, l) \in Headers \cup {Null}
  BY <1>1, <1>2 DEF DigestHeader, Headers
<1> QED BY <1>1, <1>2, <1>3 DEF AfterHeader, Locals

LEMMA NoteBuiltType ==
    ASSUME built \in Seq(Headers), NEW h \in Headers \cup {None, Null}, NoteBuilt(h)
    PROVE  built' \in Seq(Headers)
BY DEF NoteBuilt

\* Thread t finishes its call.
LEMMA FinishType ==
    ASSUME TypeOK, NEW t \in Threads, ~Idle(t),
           NEW how \in Outcomes, Finish(t, how)
    PROVE  /\ flight' \in [Threads -> Flights \cup {None}]
           /\ result' \in [Threads -> Results]
<1>1. flight[t] \in Flights
  BY DEF TypeOK, Idle
<1>2. [how |-> how, req |-> flight[t].req, own |-> flight[t].own,
       hops |-> flight[t].hops] \in Results
  BY <1>1 DEF Flights, Results
<1> QED BY <1>2 DEF Finish, TypeOK

LEMMA SeekType ==
    ASSUME TypeOK, NEW t \in Threads, ~Idle(t)
    PROVE  /\ AfterSeek(t) \in BOOLEAN
           /\ SeekBody(t) => atStart' \in [Requests -> BOOLEAN]
<1>1. flight[t].req \in Requests
  BY DEF TypeOK, Idle, Flights
<1>2. AfterSeek(t) \in BOOLEAN
  BY <1>1 DEF AfterSeek, TypeOK
<1> QED BY <1>1, <1>2 DEF SeekBody, TypeOK

LEMMA CallsType ==
    ASSUME NEW l \in Locals, NEW n \in {None, 1, 2}
    PROVE  /\ [l EXCEPT !.calls = n] \in Locals
           /\ HasChallenge(l) => HasChallenge([l EXCEPT !.calls = n])
BY DEF Locals, HasChallenge

\* A handler that sets the counter of refusals in thread t.
LEMMA CountedType ==
    ASSUME DigestInv, NEW t \in Threads,
           local' = [local EXCEPT ![t] = [local[t] EXCEPT !.calls = 1]]
    PROVE  local' \in [Threads -> Locals] /\ \A u \in Threads : HasChallenge(local'[u])
<1>1. local \in [Threads -> Locals] /\ \A u \in Threads : HasChallenge(local[u])
  BY DEF DigestInv, TypeOK
<1> DEFINE l == [local[t] EXCEPT !.calls = 1]
<1>2. l \in Locals /\ HasChallenge(l)
  <2>1. 1 \in {None, 1, 2}
    OBVIOUS
  <2> QED BY <1>1, <2>1, CallsType
<1>3. local' = [local EXCEPT ![t] = l]
  OBVIOUS
<1> HIDE DEF l
<1> QED BY <1>1, <1>2, <1>3

LEMMA InitialisedType ==
    ASSUME NEW l \in Locals
    PROVE  /\ Initialised(l) \in Locals
           /\ HasChallenge(l) => HasChallenge(Initialised(l))
<1>1. [l EXCEPT !.init = TRUE, !.calls = None] \in Locals
  <2> DEFINE k == [l EXCEPT !.init = TRUE]
  <2>1. k \in Locals
    <3>1. \A b \in BOOLEAN : [l EXCEPT !.init = b] \in Locals
      BY DEF Locals
    <3> QED BY <3>1
  <2>2. [l EXCEPT !.init = TRUE, !.calls = None] = [k EXCEPT !.calls = None]
    BY DEF Locals
  <2>3. None \in {None, 1, 2}
    OBVIOUS
  <2> HIDE DEF k
  <2> QED BY <2>1, <2>2, <2>3, CallsType
<1>2. /\ [l EXCEPT !.init = TRUE, !.calls = None].chal = l.chal
      /\ [l EXCEPT !.init = TRUE, !.calls = None].lastNonce = l.lastNonce
  BY DEF Locals
<1> QED BY <1>1, <1>2 DEF Initialised, HasChallenge

LEMMA PreparedType ==
    ASSUME NEW l \in Locals, NEW r \in Requests
    PROVE  /\ Prepared(l, r) \in Locals
           /\ HasChallenge(l) => HasChallenge(Prepared(l, r))
<1>1. Position(r) \in Nat \cup {None} /\ 1 \in {None, 1, 2}
  BY DigestAssumption DEF Position
<1>2. Prepared(l, r) \in Locals
  BY <1>1 DEF Prepared, Locals
<1>3. Prepared(l, r).chal = l.chal /\ Prepared(l, r).lastNonce = l.lastNonce
  BY DEF Prepared, Locals
<1> QED BY <1>2, <1>3 DEF HasChallenge

LEMMA PrepareType ==
    ASSUME DigestInv, NEW t \in Threads, NEW r \in Requests, Prepare(t, r)
    PROVE  DigestInv'
<1> DEFINE l == Initialised(local[t])
           h == IF l.lastNonce = None THEN None ELSE DigestHeader(t, l)
           c == IF l.lastNonce = None THEN l ELSE AfterHeader(l)
<1>1. TypeOK /\ local[t] \in Locals /\ HasChallenge(local[t])
  BY DEF DigestInv, TypeOK
<1>2. l \in Locals /\ HasChallenge(l)
  BY <1>1, InitialisedType
<1>3. h \in Headers \cup {None, Null} /\ c \in Locals /\ HasChallenge(c)
  <2> HIDE DEF l
  <2>1. CASE l.lastNonce = None
    BY <1>2, <2>1
  <2>2. CASE l.lastNonce # None
    <3>1. l.chal \in Challenges
      BY <1>2, <2>2 DEF HasChallenge, Locals
    <3> QED BY <1>2, <2>2, <3>1, HeaderFacts, RecordAssumption DEF HasChallenge
  <2> QED BY <2>1, <2>2
<1>4. /\ header' = [header EXCEPT ![r] = h] /\ NoteBuilt(h)
      /\ \/ /\ local' = [local EXCEPT ![t] = c]
            /\ fresh' = [fresh EXCEPT ![t] = None]
            /\ state' = [state EXCEPT ![r] = "failed"]
            /\ result' = [result EXCEPT ![t] =
                   [how |-> "NoTell", req |-> r, own |-> TRUE, hops |-> 0]]
         \/ /\ local' = [local EXCEPT ![t] = Prepared(c, r)]
            /\ fresh' = [fresh EXCEPT ![t] = r]
            /\ state' = [state EXCEPT ![r] = "ready"]
            /\ UNCHANGED result
      /\ UNCHANGED <<sends, atStart, flight, issued>>
  BY DEF Prepare
<1> HIDE DEF h, c, l
<1>5. Prepared(c, r) \in Locals /\ HasChallenge(Prepared(c, r))
  BY <1>3, PreparedType
<1>6. [how |-> "NoTell", req |-> r, own |-> TRUE, hops |-> 0] \in Results
  BY DigestAssumption DEF Results, Outcomes
<1>7. /\ local' \in [Threads -> Locals]
      /\ \A u \in Threads : HasChallenge(local'[u])
  BY <1>1, <1>3, <1>4, <1>5 DEF DigestInv, TypeOK
<1>8. header' \in [Requests -> Headers \cup {None, Null}] /\ built' \in Seq(Headers)
  BY <1>1, <1>3, <1>4, NoteBuiltType DEF TypeOK
<1>9. /\ result' \in [Threads -> Results]
      /\ fresh' \in [Threads -> Requests \cup {None}]
      /\ state' \in [Requests -> {"absent", "new", "ready", "failed"}]
  BY <1>1, <1>4, <1>6, ZenonT(60) DEF TypeOK
<1> QED BY <1>1, <1>4, <1>7, <1>8, <1>9 DEF DigestInv, TypeOK, HasChallenge

LEMMA SendType ==
    ASSUME DigestInv, NEW t \in Threads, NEW r \in Requests, Send(t, r)
    PROVE  DigestInv'
<1>1. TypeOK /\ 0 \in 0..MaxHops
  BY DigestAssumption DEF DigestInv
<1>2. Own(t, r) \in BOOLEAN /\ (Body[r] # "none") \in BOOLEAN /\ atStart[r] \in BOOLEAN
  BY <1>1 DEF Own, TypeOK
<1>3. [how |-> "NoHeader", req |-> r, own |-> Own(t, r), hops |-> 0] \in Results
  BY <1>1, <1>2 DEF Results, Outcomes
<1>4. header[r] # Null =>
          Flight(r, header[r], Body[r] # "none", atStart[r], 0, Own(t, r)) \in Flights
  BY <1>1, <1>2 DEF TypeOK, Flight, Flights
<1>5. flight' \in [Threads -> Flights \cup {None}] /\ result' \in [Threads -> Results]
  BY <1>1, <1>3, <1>4 DEF Send, TypeOK
<1>6. /\ sends' \in [Requests -> Nat] /\ atStart' \in [Requests -> BOOLEAN]
      /\ fresh' \in [Threads -> Requests \cup {None}]
  <2>1. sends[r] + 1 \in Nat /\ (atStart[r] /\ Body[r] \notin Streams) \in BOOLEAN
    BY <1>1, <1>2 DEF TypeOK
  <2>2. /\ sends' = [sends EXCEPT ![r] = sends[r] + 1]
        /\ fresh' = [fresh EXCEPT ![t] = None]
        /\ \/ UNCHANGED atStart
           \/ atStart' = [atStart EXCEPT ![r] = atStart[r] /\ Body[r] \notin Streams]
    BY <1>1 DEF Send, TypeOK
  <2> QED BY <1>1, <2>1, <2>2 DEF TypeOK
<1> QED BY <1>1, <1>5, <1>6 DEF Send, DigestInv, TypeOK, HasChallenge

\* handle_401 has decided to answer.
LEMMA AnsweringType ==
    ASSUME NEW l \in Locals, NEW chal \in Challenges, l.calls # None, MayAnswer(l)
    PROVE  /\ Answering(l, chal) \in Locals
           /\ Answering(l, chal).chal = chal
           /\ Answering(l, chal).init = l.init
           /\ Answering(l, chal).pos = l.pos
           /\ Answering(l, chal).lastNonce = l.lastNonce
           /\ Answering(l, chal).nonceCount = l.nonceCount
<1>1. l.calls + 1 \in {None, 1, 2}
  BY DEF MayAnswer, Locals
<1> QED BY <1>1 DEF Answering, Locals

LEMMA ChallengeType ==
    ASSUME DigestInv, NEW t \in Threads, NEW chal \in Challenges, Challenge(t, chal)
    PROVE  DigestInv'
<1> DEFINE f == flight[t]
           l == Answering(local[t], chal)
           h == DigestHeader(t, l)
<1>1. TypeOK /\ local[t] \in Locals /\ HasChallenge(local[t])
  BY DEF DigestInv, TypeOK
<1>2. ~Idle(t) /\ chal.nonce \in Nonces
  BY DEF Challenge, Challenged, Looks, Challenges
<1>3. f \in Flights /\ f.req \in Requests /\ AfterSeek(t) \in BOOLEAN
  BY <1>1, <1>2, SeekType DEF TypeOK, Idle, Flights
<1>4. l \in Locals /\ l.chal = chal
  BY <1>1, AnsweringType DEF Challenge
<1>5. /\ issued' = issued \cup {chal.nonce}
      /\ local' = [local EXCEPT ![t] = AfterHeader(l)]
      /\ NoteBuilt(h)
      /\ \/ SeekBody(t) /\ Finish(t, "NoHeader")
         \/ /\ UNCHANGED result
            /\ flight' = [flight EXCEPT ![t] =
                   [f EXCEPT !.header = h, !.tries = @ + 1,
                             !.whole = f.body => AfterSeek(t)]]
            /\ atStart' = [atStart EXCEPT ![f.req] =
                   AfterSeek(t) /\ ~(f.body /\ Body[f.req] \in Streams)]
      /\ UNCHANGED <<header, state, sends, fresh>>
  BY DEF Challenge, Challenged
<1> HIDE DEF l
<1>6. h \in Headers \cup {Null} /\ AfterHeader(l) \in Locals
          /\ AfterHeader(l).chal = chal /\ chal # None
  BY <1>4, HeaderFacts, RecordAssumption
<1> HIDE DEF h
<1>7. local' \in [Threads -> Locals] /\ \A u \in Threads : HasChallenge(local'[u])
  BY <1>1, <1>5, <1>6 DEF DigestInv, TypeOK, HasChallenge
<1>8. built' \in Seq(Headers)
  BY <1>1, <1>5, <1>6, NoteBuiltType DEF TypeOK
<1>9. [f EXCEPT !.header = h, !.tries = @ + 1, !.whole = f.body => AfterSeek(t)]
          \in Flights
  <2>1. f.tries + 1 \in Nat /\ (f.body => AfterSeek(t)) \in BOOLEAN
    BY <1>3 DEF Flights
  <2> HIDE DEF f
  <2> QED BY <1>3, <1>6, <2>1 DEF Flights
<1>10. /\ flight' \in [Threads -> Flights \cup {None}]
       /\ result' \in [Threads -> Results]
       /\ atStart' \in [Requests -> BOOLEAN]
  <2>1. CASE SeekBody(t) /\ Finish(t, "NoHeader")
    <3>1. "NoHeader" \in Outcomes
      BY DEF Outcomes
    <3> QED BY <1>1, <1>2, <2>1, <3>1, FinishType, SeekType
  <2>2. CASE ~(SeekBody(t) /\ Finish(t, "NoHeader"))
    <3> HIDE DEF f
    <3>1. (AfterSeek(t) /\ ~(f.body /\ Body[f.req] \in Streams)) \in BOOLEAN
      OBVIOUS
    <3>2. flight' \in [Threads -> Flights \cup {None}]
      BY <1>1, <1>5, <1>9, <2>2 DEF TypeOK
    <3>3. atStart' \in [Requests -> BOOLEAN]
      BY <1>1, <1>3, <1>5, <2>2, <3>1 DEF TypeOK
    <3> QED BY <1>1, <1>5, <2>2, <3>2, <3>3 DEF TypeOK
  <2> QED BY <2>1, <2>2
<1> QED BY <1>1, <1>2, <1>5, <1>7, <1>8, <1>10 DEF DigestInv, TypeOK, HasChallenge

LEMMA RedirectType ==
    ASSUME DigestInv, NEW t \in Threads, NEW keepBody \in BOOLEAN,
           Redirect(t, keepBody)
    PROVE  DigestInv'
<1> DEFINE f == flight[t]
           body == f.body /\ keepBody
           whole == body => Body[f.req] = "file" \/ atStart[f.req]
           g == Flight(f.req, header[f.req], body, whole, f.hops + 1, f.own)
<1>1. TypeOK /\ MaxHops \in Nat
  BY DigestAssumption DEF DigestInv
<1>2. f \in Flights /\ f.hops < MaxHops /\ f.hops + 1 \in 0..MaxHops
  BY <1>1 DEF Redirect, TypeOK, Idle, Flights
<1>3. g \in Flights
  <2>1. header[f.req] \in Headers \cup {None, Null} /\ f.req \in Requests
            /\ f.own \in BOOLEAN /\ body \in BOOLEAN /\ whole \in BOOLEAN
    BY <1>1, <1>2 DEF TypeOK, Flights
  <2> HIDE DEF body, whole
  <2> QED BY <1>2, <2>1 DEF Flight, Flights
<1>4. flight' = [flight EXCEPT ![t] = g]
  BY DEF Redirect
<1>5. /\ local' = [local EXCEPT ![t] = [local[t] EXCEPT !.calls = 1]]
      /\ UNCHANGED <<header, state, sends, atStart, fresh, result, built, issued>>
  BY <1>1 DEF Redirect, TypeOK
<1> HIDE DEF g
<1>6. local' \in [Threads -> Locals] /\ \A u \in Threads : HasChallenge(local'[u])
  BY <1>5, CountedType
<1> QED BY <1>1, <1>3, <1>4, <1>5, <1>6 DEF DigestInv, TypeOK, HasChallenge

\* The answers, and failures, with which a call of thread t is over.
Ends(t) ==
    \/ SendFails(t) \/ Answered(t) \/ RedirectFails(t)
    \/ \E keepBody \in BOOLEAN : RedirectStops(t, keepBody)
    \/ RefusedBadly(t) \/ Refused(t) \/ RefusedAgain(t)
    \/ \E chal \in Challenges : NotCounted(t, chal) \/ GiveUp(t, chal)
                                 \/ ChallengeBreaks(t, chal)

\* What the actions in Ends have in common.
LEMMA EndFacts ==
    ASSUME DigestInv, NEW t \in Threads, Ends(t)
    PROVE  /\ ~Idle(t) /\ flight[t] \in Flights
           /\ \E how \in Outcomes : Finish(t, how)
           /\ \/ local' = local
              \/ local' = [local EXCEPT ![t] = [local[t] EXCEPT !.calls = 1]]
              \/ \E chal \in Challenges :
                    /\ local[t].calls # None /\ MayAnswer(local[t])
                    /\ local' = [local EXCEPT ![t] = Answering(local[t], chal)]
           /\ \/ atStart' = atStart
              \/ SeekBody(t)
              \/ \E b \in BOOLEAN : atStart' = [atStart EXCEPT ![flight[t].req] = b]
           /\ issued' \subseteq Nonces
           /\ UNCHANGED <<header, state, sends, fresh, built>>
<1>1. TypeOK
  BY DEF DigestInv
<1>2. ASSUME ~Idle(t) PROVE flight[t] \in Flights /\ flight[t].req \in Requests
  BY <1>1, <1>2 DEF TypeOK, Idle, Flights
<1>3. local \in [Threads -> Locals] /\ issued \subseteq Nonces
  BY <1>1 DEF TypeOK
<1>4. ASSUME NEW chal \in Challenges PROVE issued \cup {chal.nonce} \subseteq Nonces
  BY <1>1 DEF TypeOK, Challenges
<1>5. CASE SendFails(t)
  BY <1>2, <1>3, <1>5 DEF SendFails, Outcomes
<1>6. CASE Answered(t)
  BY <1>2, <1>3, <1>6 DEF Answered, Outcomes
<1>7. CASE RedirectFails(t)
  BY <1>2, <1>3, <1>7 DEF RedirectFails, Outcomes
<1>8. ASSUME NEW keepBody \in BOOLEAN, RedirectStops(t, keepBody)
      PROVE  /\ ~Idle(t) /\ Finish(t, "returned")
             /\ local' = [local EXCEPT ![t] = [local[t] EXCEPT !.calls = 1]]
             /\ \E b \in BOOLEAN : atStart' = [atStart EXCEPT ![flight[t].req] = b]
             /\ UNCHANGED <<header, state, sends, fresh, built, issued>>
  <2> DEFINE f == flight[t]
             b == atStart[f.req] \/ ((f.body /\ keepBody /\ MaxHops > 0)
                                        /\ Body[f.req] = "file")
  <2>1. ~Idle(t)
    BY <1>8 DEF RedirectStops
  <2>2. atStart' = [atStart EXCEPT ![f.req] = b]
    BY <1>1, <1>2, <1>8, <2>1 DEF RedirectStops, TypeOK
  <2>3. b \in BOOLEAN
    BY <1>1, <1>2, <2>1 DEF TypeOK
  <2> HIDE DEF b
  <2> QED BY <1>3, <1>8, <2>1, <2>2, <2>3 DEF RedirectStops
<1>9. CASE RefusedBadly(t)
  BY <1>2, <1>3, <1>9 DEF RefusedBadly, Outcomes
<1>10. CASE Refused(t)
  BY <1>2, <1>3, <1>10 DEF Refused, Looks, Outcomes
<1>11. CASE RefusedAgain(t)
  BY <1>2, <1>3, <1>11 DEF RefusedAgain, Outcomes
<1>12. ASSUME NEW chal \in Challenges, NotCounted(t, chal)
       PROVE  /\ ~Idle(t) /\ Finish(t, "NoCount") /\ local' = local /\ SeekBody(t)
              /\ issued' \subseteq Nonces
              /\ UNCHANGED <<header, state, sends, fresh, built>>
  BY <1>4, <1>12 DEF NotCounted, Challenged, Looks
<1>13. ASSUME NEW chal \in Challenges, GiveUp(t, chal)
       PROVE  /\ ~Idle(t) /\ Finish(t, "unanswered") /\ SeekBody(t)
              /\ local' = [local EXCEPT ![t] = [local[t] EXCEPT !.calls = 1]]
              /\ issued' \subseteq Nonces
              /\ UNCHANGED <<header, state, sends, fresh, built>>
  BY <1>3, <1>4, <1>13 DEF GiveUp, Challenged, Looks
<1>14. ASSUME NEW chal \in Challenges, ChallengeBreaks(t, chal)
       PROVE  /\ ~Idle(t) /\ Finish(t, "ContentError") /\ SeekBody(t)
              /\ local[t].calls # None /\ MayAnswer(local[t])
              /\ local' = [local EXCEPT ![t] = Answering(local[t], chal)]
              /\ issued' \subseteq Nonces
              /\ UNCHANGED <<header, state, sends, fresh, built>>
  BY <1>4, <1>14 DEF ChallengeBreaks, Challenged, Looks
<1>15. {"returned", "NoCount", "unanswered", "ContentError"} \subseteq Outcomes
  BY DEF Outcomes
<1>16. CASE \E keepBody \in BOOLEAN : RedirectStops(t, keepBody)
  BY <1>2, <1>3, <1>8, <1>15, <1>16
<1>17. CASE \E chal \in Challenges : NotCounted(t, chal)
  BY <1>2, <1>12, <1>15, <1>17
<1>18. CASE \E chal \in Challenges : GiveUp(t, chal)
  BY <1>2, <1>13, <1>15, <1>18
<1>19. CASE \E chal \in Challenges : ChallengeBreaks(t, chal)
  BY <1>2, <1>14, <1>15, <1>19
<1> QED BY <1>5, <1>6, <1>7, <1>9, <1>10, <1>11, <1>16, <1>17, <1>18, <1>19 DEF Ends

LEMMA EndType ==
    ASSUME DigestInv, NEW t \in Threads, Ends(t)
    PROVE  DigestInv'
<1>1. TypeOK /\ local \in [Threads -> Locals] /\ \A u \in Threads : HasChallenge(local[u])
  BY DEF DigestInv, TypeOK
<1>2. ~Idle(t) /\ flight[t].req \in Requests
  BY EndFacts DEF Flights
<1>3. flight' \in [Threads -> Flights \cup {None}] /\ result' \in [Threads -> Results]
  BY <1>1, <1>2, EndFacts, FinishType
<1>4. local' \in [Threads -> Locals] /\ \A u \in Threads : HasChallenge(local'[u])
  <2>1. CASE local' = local
    BY <1>1, <2>1
  <2>2. CASE local' = [local EXCEPT ![t] = [local[t] EXCEPT !.calls = 1]]
    BY <2>2, CountedType
  <2>3. ASSUME NEW chal \in Challenges, local[t].calls # None, MayAnswer(local[t]),
               local' = [local EXCEPT ![t] = Answering(local[t], chal)]
        PROVE  local' \in [Threads -> Locals] /\ \A u \in Threads : HasChallenge(local'[u])
    <3>1. /\ Answering(local[t], chal) \in Locals
          /\ Answering(local[t], chal).chal # None
      BY <1>1, <2>3, AnsweringType, RecordAssumption
    <3> QED BY <1>1, <2>3, <3>1 DEF HasChallenge
  <2> QED BY <2>1, <2>2, <2>3, EndFacts
<1>5. atStart' \in [Requests -> BOOLEAN]
  <2>1. atStart \in [Requests -> BOOLEAN]
    BY <1>1 DEF TypeOK
  <2> QED BY <1>1, <1>2, <2>1, EndFacts, SeekType
<1>6. issued' \subseteq Nonces /\ UNCHANGED <<header, state, sends, fresh, built>>
  BY EndFacts
<1> QED BY <1>1, <1>3, <1>4, <1>5, <1>6 DEF DigestInv, TypeOK

LEMMA RespondCases ==
    ASSUME NEW t \in Threads
    PROVE  Respond(t) <=> \/ Ends(t)
                          \/ \E keepBody \in BOOLEAN : Redirect(t, keepBody)
                          \/ \E chal \in Challenges : Challenge(t, chal)
BY DEF Respond, Ends

LEMMA DigestInit == Init => DigestInv
<1> SUFFICES ASSUME Init PROVE DigestInv
  OBVIOUS
<1>1. [init |-> FALSE, lastNonce |-> None, nonceCount |-> 0, chal |-> None,
       pos |-> None, calls |-> None] \in Locals
  BY DEF Locals
<1>2. [how |-> "none", req |-> None, own |-> FALSE, hops |-> 0] \in Results
  BY DigestAssumption DEF Results, Outcomes
<1>3. state \in [Requests -> {"absent", "new", "ready", "failed"}]
  BY DEF Init
<1> QED BY <1>1, <1>2, <1>3 DEF Init, DigestInv, TypeOK, HasChallenge

LEMMA DigestStep == DigestInv /\ [Next]_vars => DigestInv'
<1> SUFFICES ASSUME DigestInv, [Next]_vars PROVE DigestInv'
  OBVIOUS
<1>1. CASE UNCHANGED vars
  BY <1>1 DEF vars, DigestInv, TypeOK, HasChallenge
<1>2. ASSUME NEW t \in Threads,
             \/ \E r \in Requests : Prepare(t, r)
             \/ \E r \in Requests : Send(t, r)
             \/ Respond(t)
      PROVE  DigestInv'
  BY <1>2, PrepareType, SendType, EndType, RedirectType, ChallengeType, RespondCases
<1> QED BY <1>1, <1>2 DEF Next

LEMMA DigestAlways == Spec => []DigestInv
BY DigestInit, DigestStep, PTL DEF Spec

\* Every variable keeps its shape: the counter of refusals stays under its
\* limit, and a header is built only where there is a challenge.
THEOREM TypeCorrect == Spec => []TypeOK
<1>1. DigestInv => TypeOK
  BY DEF DigestInv
<1> QED BY <1>1, DigestAlways, PTL

-----------------------------------------------------------------------------
(* Nonce counts.                                                           *)

\* The header at i is the latest of thread t.
LatestOf(t, i) ==
    /\ i \in 1..Len(built) /\ built[i].by = t
    /\ \A k \in (i + 1)..Len(built) : built[k].by # t

(***************************************************************************)
(* NonceCountsUp speaks of two headers of a thread that follow each other. *)
(* It is kept because the attributes of the thread still have the nonce    *)
(* and the count of the earlier one when the later one is built.           *)
(***************************************************************************)
CountInv ==
    /\ NonceCountsUp
    /\ \A t \in Threads : \A i \in 1..Len(built) : LatestOf(t, i) =>
           /\ local[t].lastNonce = built[i].nonce
           /\ local[t].nonceCount = built[i].nc

SameCount(l, k) == l.lastNonce = k.lastNonce /\ l.nonceCount = k.nonceCount

\* A header with a value is the one that the attributes tell of afterwards; a
\* challenge with an unknown algorithm leaves them alone.
LEMMA CountFacts ==
    ASSUME "qop" \notin Unknowns, NEW t \in Threads, NEW l \in Locals,
           l.chal \in Challenges
    PROVE  \/ DigestHeader(t, l) = Null /\ SameCount(AfterHeader(l), l)
           \/ /\ DigestHeader(t, l) \in Headers
              /\ DigestHeader(t, l).by = t
              /\ DigestHeader(t, l).nonce = AfterHeader(l).lastNonce
              /\ DigestHeader(t, l).nc = AfterHeader(l).nonceCount
              /\ DigestHeader(t, l).nc = IF DigestHeader(t, l).nonce = l.lastNonce
                                         THEN l.nonceCount + 1 ELSE 1
<1>1. l.chal.nonce \in Nonces /\ l.chal.unknown \in {"nothing", "algorithm"}
  BY DigestAssumption DEF Challenges
<1>2. CASE l.chal.unknown = "nothing"
  <2>1. DigestHeader(t, l) = [by |-> t, nonce |-> l.chal.nonce, nc |-> Count(l)]
    BY <1>2 DEF DigestHeader
  <2>2. Count(l) \in Nat \ {0}
    BY DEF Count, Locals
  <2>3. AfterHeader(l).lastNonce = l.chal.nonce /\ AfterHeader(l).nonceCount = Count(l)
    BY <1>2 DEF AfterHeader, Locals
  <2> QED BY <1>1, <2>1, <2>2, <2>3 DEF Headers, Count
<1>3. CASE l.chal.unknown = "algorithm"
  BY <1>3 DEF DigestHeader, AfterHeader, SameCount, Locals
<1> QED BY <1>1, <1>2, <1>3

\* A step builds no header and leaves nonces and counts alone, or it builds one
\* that continues the count of its thread.
Builds(t, h) ==
    /\ h \in Headers /\ h.by = t
    /\ built' = Append(built, h)
    /\ local'[t].lastNonce = h.nonce /\ local'[t].nonceCount = h.nc
    /\ h.nc = IF h.nonce = local[t].lastNonce THEN local[t].nonceCount + 1 ELSE 1
    /\ \A u \in Threads \ {t} : SameCount(local'[u], local[u])

BuildsNone ==
    built' = built /\ \A u \in Threads : SameCount(local'[u], local[u])

\* build_digest_header, with the attributes l of thread t, which it leaves as c
\* or as c with other fields changed.
LEMMA BuildFacts ==
    ASSUME "qop" \notin Unknowns, TypeOK, NEW t \in Threads, NEW l \in Locals,
           l.chal \in Challenges, SameCount(l, local[t]),
           NoteBuilt(DigestHeader(t, l)), NEW k, SameCount(k, AfterHeader(l)),
           local' = [local EXCEPT ![t] = k]
    PROVE  BuildsNone \/ Builds(t, DigestHeader(t, l))
<1>1. /\ local'[t] = k /\ \A u \in Threads \ {t} : local'[u] = local[u]
  BY DEF TypeOK
<1>2. CASE DigestHeader(t, l) = Null
  <2>1. SameCount(AfterHeader(l), l)
    BY <1>2, CountFacts, RecordAssumption
  <2>2. built' = built
    BY <1>2 DEF NoteBuilt
  <2> QED BY <1>1, <2>1, <2>2 DEF BuildsNone, SameCount
<1>3. CASE DigestHeader(t, l) # Null
  <2> DEFINE h == DigestHeader(t, l)
  <2>1. /\ h \in Headers /\ h.by = t
        /\ h.nonce = AfterHeader(l).lastNonce /\ h.nc = AfterHeader(l).nonceCount
        /\ h.nc = IF h.nonce = l.lastNonce THEN l.nonceCount + 1 ELSE 1
    BY <1>3, CountFacts
  <2> HIDE DEF h
  <2>2. built' = Append(built, h)
    BY <2>1, RecordAssumption DEF NoteBuilt, h
  <2> QED BY <1>1, <2>1, <2>2 DEF Builds, SameCount, h
<1> QED BY <1>2, <1>3

LEMMA PrepareBuilds ==
    ASSUME "qop" \notin Unknowns, DigestInv, NEW t \in Threads, NEW r \in Requests,
           Prepare(t, r)
    PROVE  BuildsNone \/ \E h : Builds(t, h)
<1> DEFINE l == Initialised(local[t])
           c == IF l.lastNonce = None THEN l ELSE AfterHeader(l)
<1>1. TypeOK /\ local[t] \in Locals /\ HasChallenge(local[t])
  BY DEF DigestInv, TypeOK
<1>2. l \in Locals /\ HasChallenge(l) /\ SameCount(l, local[t])
  <2>1. SameCount(l, local[t])
    BY <1>1 DEF Initialised, SameCount, Locals
  <2> QED BY <1>1, <2>1, InitialisedType
<1>3. /\ NoteBuilt(IF l.lastNonce = None THEN None ELSE DigestHeader(t, l))
      /\ \/ local' = [local EXCEPT ![t] = c]
         \/ local' = [local EXCEPT ![t] = Prepared(c, r)]
  BY DEF Prepare
<1> HIDE DEF l
<1>4. CASE l.lastNonce = None
  <2>1. built' = built /\ SameCount(Prepared(c, r), l)
    BY <1>2, <1>3, <1>4 DEF NoteBuilt, Prepared, SameCount, Locals
  <2>2. \A u \in Threads : SameCount(local'[u], local[u])
    BY <1>1, <1>2, <1>3, <1>4, <2>1 DEF SameCount, TypeOK
  <2> QED BY <2>1, <2>2 DEF BuildsNone
<1>5. CASE l.lastNonce # None
  <2>1. l.chal \in Challenges
    BY <1>2, <1>5 DEF HasChallenge, Locals
  <2>2. SameCount(Prepared(AfterHeader(l), r), AfterHeader(l))
    BY <1>2, <2>1, HeaderFacts DEF Prepared, SameCount, Locals
  <2>3. SameCount(AfterHeader(l), AfterHeader(l))
    BY DEF SameCount
  <2> QED BY <1>1, <1>2, <1>3, <1>5, <2>1, <2>2, <2>3, BuildFacts
<1> QED BY <1>4, <1>5

LEMMA StepBuilds ==
    ASSUME "qop" \notin Unknowns, DigestInv, [Next]_vars
    PROVE  BuildsNone \/ \E t \in Threads, h \in Headers : Builds(t, h)
<1>1. TypeOK
  BY DEF DigestInv
<1>2. ASSUME built' = built, NEW t \in Threads, NEW k, SameCount(k, local[t]),
             local' = local \/ local' = [local EXCEPT ![t] = k]
      PROVE  BuildsNone
  BY <1>1, <1>2 DEF BuildsNone, SameCount, TypeOK
<1>3. CASE UNCHANGED vars
  BY <1>3 DEF vars, BuildsNone, SameCount
<1>4. ASSUME NEW t \in Threads, \E r \in Requests : Prepare(t, r)
      PROVE  BuildsNone \/ \E h \in Headers : Builds(t, h)
  BY <1>4, PrepareBuilds DEF Builds
<1>5. ASSUME NEW t \in Threads, \E r \in Requests : Send(t, r)
      PROVE  BuildsNone
  BY <1>5 DEF Send, BuildsNone, SameCount
<1>6. ASSUME NEW t \in Threads, NEW chal \in Challenges, Challenge(t, chal)
      PROVE  BuildsNone \/ \E h \in Headers : Builds(t, h)
  <2> DEFINE l == Answering(local[t], chal)
  <2>1. l \in Locals /\ l.chal = chal /\ SameCount(l, local[t])
    <3>1. local[t] \in Locals /\ local[t].calls # None /\ MayAnswer(local[t])
      BY <1>1, <1>6 DEF Challenge, TypeOK
    <3> QED BY <3>1, AnsweringType DEF SameCount
  <2>2. NoteBuilt(DigestHeader(t, l)) /\ local' = [local EXCEPT ![t] = AfterHeader(l)]
    BY <1>6 DEF Challenge
  <2> HIDE DEF l
  <2>3. SameCount(AfterHeader(l), AfterHeader(l))
    BY DEF SameCount
  <2>4. BuildsNone \/ Builds(t, DigestHeader(t, l))
    BY <1>1, <2>1, <2>2, <2>3, BuildFacts
  <2> QED BY <2>4 DEF Builds
<1>7. ASSUME NEW t \in Threads, NEW keepBody \in BOOLEAN, Redirect(t, keepBody)
      PROVE  BuildsNone
  <2> DEFINE k == [local[t] EXCEPT !.calls = 1]
  <2>1. SameCount(k, local[t])
    BY <1>1 DEF SameCount, TypeOK, Locals
  <2>2. built' = built /\ local' = [local EXCEPT ![t] = k]
    BY <1>1, <1>7 DEF Redirect, TypeOK
  <2> HIDE DEF k
  <2> QED BY <1>2, <2>1, <2>2
<1>8. ASSUME NEW t \in Threads, Ends(t)
      PROVE  BuildsNone
  <2>1. built' = built /\ local[t] \in Locals
    BY <1>1, <1>8, EndFacts DEF TypeOK
  <2>2. SameCount([local[t] EXCEPT !.calls = 1], local[t])
    BY <2>1 DEF SameCount, Locals
  <2>3. ASSUME NEW chal \in Challenges, local[t].calls # None, MayAnswer(local[t])
        PROVE  SameCount(Answering(local[t], chal), local[t])
    BY <2>1, <2>3, AnsweringType DEF SameCount
  <2>4. PICK k : SameCount(k, local[t]) /\ (local' = local \/ local' = [local EXCEPT ![t] = k])
    BY <1>8, <2>2, <2>3, EndFacts
  <2> QED BY <1>2, <2>1, <2>4
<1> QED BY <1>3, <1>4, <1>5, <1>6, <1>7, <1>8, RespondCases DEF Next

LEMMA CountStep ==
    ASSUME "qop" \notin Unknowns
    PROVE  DigestInv /\ CountInv /\ [Next]_vars => CountInv'
<1> SUFFICES ASSUME DigestInv, CountInv, [Next]_vars PROVE CountInv'
  OBVIOUS
<1>1. CASE BuildsNone
  <2>1. built' = built
    BY <1>1 DEF BuildsNone
  <2>2. NonceCountsUp'
    BY <2>1 DEF CountInv, NonceCountsUp
  <2>3. ASSUME NEW u \in Threads, NEW i \in 1..Len(built'), LatestOf(u, i)'
        PROVE  local'[u].lastNonce = built'[i].nonce /\ local'[u].nonceCount = built'[i].nc
    <3>1. LatestOf(u, i) /\ i \in 1..Len(built)
      BY <2>1, <2>3 DEF LatestOf
    <3>2. SameCount(local'[u], local[u])
      BY <1>1 DEF BuildsNone
    <3> QED BY <2>1, <3>1, <3>2 DEF CountInv, SameCount
  <2> QED BY <2>2, <2>3 DEF CountInv
<1>2. ASSUME NEW t \in Threads, NEW h \in Headers, Builds(t, h)
      PROVE  CountInv'
  <2>1. built \in Seq(Headers)
    BY DEF DigestInv, TypeOK
  <2>2. PICK n \in Nat : n = Len(built)
    BY <2>1
  <2>3. /\ Len(built') = n + 1 /\ built'[n + 1] = h
        /\ \A i \in 1..n : built'[i] = built[i]
    BY <1>2, <2>1, <2>2 DEF Builds
  <2>4. h.by = t
    BY <1>2 DEF Builds
  <2>5. NonceCountsUp'
    <3> SUFFICES ASSUME NEW i \in 1..(n + 1), NEW j \in 1..(n + 1), i < j,
                        built'[i].by = built'[j].by, built'[i].nonce = built'[j].nonce,
                        \A k \in (i + 1)..(j - 1) : built'[k].by # built'[j].by
                 PROVE  built'[j].nc = built'[i].nc + 1
      BY <2>3 DEF NonceCountsUp
    <3>1. i \in 1..n
      BY <2>2
    <3>2. CASE j \in 1..n
      <4>1. \A k \in (i + 1)..(j - 1) : built[k].by # built[j].by
        BY <2>3, <3>1, <3>2
      <4>2. built[i].by = built[j].by /\ built[i].nonce = built[j].nonce
        BY <2>3, <3>1, <3>2
      <4>3. i \in 1..Len(built) /\ j \in 1..Len(built)
        BY <2>2, <3>1, <3>2
      <4>4. built[j].nc = built[i].nc + 1
        BY <4>1, <4>2, <4>3 DEF CountInv, NonceCountsUp
      <4> QED BY <2>3, <3>1, <3>2, <4>4
    <3>3. CASE j = n + 1
      <4>1. LatestOf(t, i)
        BY <2>2, <2>3, <2>4, <3>1, <3>3 DEF LatestOf
      <4>2. local[t].lastNonce = built[i].nonce /\ local[t].nonceCount = built[i].nc
        BY <2>2, <3>1, <4>1 DEF CountInv
      <4>3. built'[j] = h /\ built'[i] = built[i]
        BY <2>3, <3>1, <3>3
      <4>4. h.nc = IF h.nonce = local[t].lastNonce THEN local[t].nonceCount + 1 ELSE 1
        BY <1>2 DEF Builds
      <4>5. h.nonce = local[t].lastNonce
        BY <4>2, <4>3
      <4> QED BY <4>2, <4>3, <4>4, <4>5
    <3> QED BY <3>2, <3>3
  <2>6. ASSUME NEW u \in Threads, NEW i \in 1..(n + 1), LatestOf(u, i)'
        PROVE  local'[u].lastNonce = built'[i].nonce /\ local'[u].nonceCount = built'[i].nc
    <3>1. built'[i].by = u /\ \A k \in (i + 1)..(n + 1) : built'[k].by # u
      BY <2>3, <2>6 DEF LatestOf
    <3>2. CASE i = n + 1
      BY <1>2, <2>3, <2>4, <3>1, <3>2 DEF Builds
    <3>3. CASE i \in 1..n
      <4>1. u # t
        BY <2>3, <2>4, <3>1, <3>3
      <4>2. LatestOf(u, i)
        BY <2>2, <2>3, <3>1, <3>3 DEF LatestOf
      <4>3. SameCount(local'[u], local[u])
        BY <1>2, <4>1 DEF Builds
      <4> QED BY <2>2, <2>3, <3>3, <4>2, <4>3 DEF CountInv, SameCount
    <3> QED BY <3>2, <3>3
  <2> QED BY <2>3, <2>5, <2>6 DEF CountInv
<1>3. DigestInv /\ [Next]_vars =>
         BuildsNone \/ \E t \in Threads, h \in Headers : Builds(t, h)
  BY StepBuilds
<1> QED BY <1>1, <1>2, <1>3

\* As long as the server asks for a qop that is implemented, a thread that
\* stays with a nonce counts its uses one by one, whatever other threads do.
THEOREM NoncesCountUp ==
    ASSUME "qop" \notin Unknowns
    PROVE  Spec => []NonceCountsUp
<1>1. Init => CountInv
  BY DEF Init, CountInv, NonceCountsUp
<1>2. DigestInv /\ CountInv /\ [Next]_vars => CountInv'
  BY CountStep
<1>3. CountInv => NonceCountsUp
  BY DEF CountInv
<1> QED BY <1>1, <1>2, <1>3, DigestAlways, PTL DEF Spec

-----------------------------------------------------------------------------
(* The request that a thread sends right after it prepared it.             *)

\* The attributes of thread t are those of request r.
Knows(t, r) ==
    local[t].init /\ local[t].pos = Position(r) /\ Body[r] # "pipe"

\* The challenge that thread t has cannot be answered.
Unanswerable(t) == local[t].chal.unknown # "nothing"

OwnFlight(t) ==
    LET f == flight[t]
    IN  /\ Knows(t, f.req)
        /\ f.whole \/ (Body[f.req] = "generator" /\ (f.tries > 1 \/ f.hops > 0))
        /\ f.tries = 1 => local[t].calls = 1
        /\ f.body => Body[f.req] # "none"
        /\ f.hops = 0 /\ Body[f.req] # "none" => f.body

OwnResult(t) ==
    LET end == result[t]
    IN  end.own => /\ end.how \notin {"unanswered", "NoThreadState", "NoCount"}
                   /\ end.how = "NoBody" => end.hops > 0
                   /\ end.how = "NoSeek" => Body[end.req] = "tape"
                   /\ end.how = "NoHeader" /\ Idle(t) => Unanswerable(t)

OwnFresh(t) ==
    /\ Idle(t) /\ Knows(t, fresh[t]) /\ local[t].calls = 1
    /\ state[fresh[t]] # "new"
    /\ header[fresh[t]] = Null => Unanswerable(t)

OwnThread(t) ==
    /\ fresh[t] # None => OwnFresh(t)
    /\ ~Idle(t) => /\ sends[flight[t].req] > 0
                   /\ flight[t].own => OwnFlight(t)
    /\ OwnResult(t)

(***************************************************************************)
(* What handle_401 reads are attributes of the thread, not of the request. *)
(* They are right for the request that was prepared last, and nobody else  *)
(* moves its body before it is sent; what is no stream is never used up.   *)
(***************************************************************************)
OwnInv ==
    /\ \A r \in Requests : sends[r] = 0 \/ Body[r] \notin Streams => atStart[r]
    /\ \A t \in Threads : OwnThread(t)

\* A step of thread t leaves the other threads alone, and what is prepared, and
\* moves no body that was not sent.
LEMMA OthersKeep ==
    ASSUME TypeOK, OwnInv, NEW t \in Threads,
           \A u \in Threads \ {t} : /\ local'[u] = local[u] /\ fresh'[u] = fresh[u]
                                    /\ flight'[u] = flight[u] /\ result'[u] = result[u],
           \A r \in Requests : sends'[r] >= sends[r],
           \A r \in Requests : sends'[r] = 0 \/ Body[r] \notin Streams =>
                                   (atStart[r] => atStart'[r]),
           \A r \in Requests : state[r] # "new" =>
                                   state'[r] # "new" /\ header'[r] = header[r],
           sends' \in [Requests -> Nat],
           OwnThread(t)'
    PROVE  OwnInv'
<1>1. \A r \in Requests : sends[r] \in Nat /\ sends'[r] \in Nat
  BY DEF TypeOK
<1>2. ASSUME NEW r \in Requests, sends'[r] = 0 \/ Body[r] \notin Streams
      PROVE  atStart'[r]
  <2>1. sends[r] = 0 \/ Body[r] \notin Streams
    BY <1>1, <1>2
  <2> QED BY <1>2, <2>1 DEF OwnInv
<1>3. ASSUME NEW u \in Threads \ {t} PROVE OwnThread(u)'
  <2>1. flight[u] # None => flight[u].req \in Requests
    BY DEF TypeOK, Flights
  <2>2. flight[u] # None /\ sends[flight[u].req] > 0 => sends'[flight[u].req] > 0
    BY <1>1, <2>1
  <2>3. /\ local'[u] = local[u] /\ fresh'[u] = fresh[u]
        /\ flight'[u] = flight[u] /\ result'[u] = result[u]
    OBVIOUS
  <2>4. OwnThread(u)
    BY DEF OwnInv
  <2>5. fresh[u] # None => OwnFresh(u)'
    <3>1. fresh[u] # None => fresh[u] \in Requests /\ OwnFresh(u)
      BY <2>4 DEF TypeOK, OwnThread
    <3> QED BY <2>3, <3>1 DEF OwnFresh, Knows, Unanswerable, Idle
  <2>6. flight[u] # None /\ flight[u].own => OwnFlight(u)'
    BY <2>3, <2>4 DEF OwnThread, OwnFlight, Knows, Idle
  <2>7. OwnResult(u)'
    BY <2>3, <2>4 DEF OwnThread, OwnResult, Unanswerable, Idle
  <2> QED BY <2>2, <2>3, <2>4, <2>5, <2>6, <2>7 DEF OwnThread, Idle
<1> QED BY <1>2, <1>3 DEF OwnInv

LEMMA NullHeader ==
    ASSUME NEW t \in Threads, NEW l \in Locals, l.chal \in Challenges,
           DigestHeader(t, l) = Null
    PROVE  l.chal.unknown # "nothing"
<1> SUFFICES ASSUME l.chal.unknown = "nothing" PROVE FALSE
  OBVIOUS
<1>1. l.nonceCount \in Nat /\ l.chal.nonce \in Nonces
  BY DEF Locals, Challenges
<1>2. Count(l) \in Nat \ {0}
  BY <1>1 DEF Count
<1>3. DigestHeader(t, l) \in Headers
  BY <1>1, <1>2 DEF DigestHeader, Headers
<1> QED BY <1>3, RecordAssumption

LEMMA OwnPrepare ==
    ASSUME DigestInv, OwnInv, NEW t \in Threads, NEW r \in Requests, Prepare(t, r)
    PROVE  OwnInv'
<1> DEFINE l == Initialised(local[t])
           h == IF l.lastNonce = None THEN None ELSE DigestHeader(t, l)
           c == IF l.lastNonce = None THEN l ELSE AfterHeader(l)
<1>1. TypeOK /\ local[t] \in Locals /\ HasChallenge(local[t]) /\ r # None
  BY DigestAssumption DEF DigestInv, TypeOK
<1>2. l \in Locals /\ HasChallenge(l) /\ l.init /\ l.chal = local[t].chal
  <2>1. l.init /\ l.chal = local[t].chal
    BY <1>1 DEF Initialised, Locals
  <2> QED BY <1>1, <2>1, InitialisedType
<1>3. /\ c \in Locals /\ c.init /\ c.chal = local[t].chal
      /\ h = Null => c.chal.unknown # "nothing"
  <2> HIDE DEF l
  <2>1. l.lastNonce # None => l.chal \in Challenges
    BY <1>2 DEF HasChallenge, Locals
  <2>2. l.lastNonce # None => /\ AfterHeader(l) \in Locals
                              /\ AfterHeader(l).init = l.init
                              /\ AfterHeader(l).chal = l.chal
    BY <1>2, <2>1, HeaderFacts
  <2>3. l.lastNonce # None /\ DigestHeader(t, l) = Null => l.chal.unknown # "nothing"
    BY <1>2, <2>1, NullHeader
  <2>4. None # Null
    BY DigestAssumption
  <2> QED BY <1>2, <2>2, <2>3, <2>4
<1>4. /\ Idle(t) /\ state[r] = "new" /\ UNCHANGED <<sends, atStart, flight>>
      /\ header' = [header EXCEPT ![r] = h]
      /\ \/ /\ local' = [local EXCEPT ![t] = c]
            /\ fresh' = [fresh EXCEPT ![t] = None]
            /\ state' = [state EXCEPT ![r] = "failed"]
            /\ result' = [result EXCEPT ![t] =
                   [how |-> "NoTell", req |-> r, own |-> TRUE, hops |-> 0]]
         \/ /\ Body[r] # "pipe"
            /\ local' = [local EXCEPT ![t] = Prepared(c, r)]
            /\ fresh' = [fresh EXCEPT ![t] = r]
            /\ state' = [state EXCEPT ![r] = "ready"]
            /\ UNCHANGED result
  BY DEF Prepare
<1> HIDE DEF l, c, h
<1>5. /\ Prepared(c, r).init /\ Prepared(c, r).pos = Position(r)
      /\ Prepared(c, r).calls = 1 /\ Prepared(c, r).chal = c.chal
  BY <1>3 DEF Prepared, Locals
<1>6. OwnThread(t)'
  <2>1. Idle(t)' /\ OwnResult(t) /\ header'[r] = h
    BY <1>1, <1>4 DEF Idle, OwnInv, OwnThread, TypeOK
  <2>2. CASE fresh' = [fresh EXCEPT ![t] = None]
    <3>1. fresh'[t] = None
      BY <1>1, <2>2 DEF TypeOK
    <3>2. CASE result' = [result EXCEPT ![t] =
                   [how |-> "NoTell", req |-> r, own |-> TRUE, hops |-> 0]]
      <4>1. result'[t].how = "NoTell"
        BY <1>1, <3>2 DEF TypeOK
      <4> QED BY <2>1, <3>1, <4>1 DEF OwnThread, OwnResult
    <3>3. CASE UNCHANGED result /\ fresh' = [fresh EXCEPT ![t] = r]
      BY <1>1, <3>1, <3>3 DEF TypeOK
    <3> QED BY <1>4, <3>2, <3>3
  <2>3. CASE ~(fresh' = [fresh EXCEPT ![t] = None])
    <3>1. /\ fresh'[t] = r /\ local'[t] = Prepared(c, r) /\ UNCHANGED result
          /\ state'[r] = "ready" /\ Body[r] # "pipe"
      BY <1>1, <1>4, <2>3 DEF TypeOK
    <3>2. OwnFresh(t)'
      BY <1>3, <1>5, <2>1, <3>1 DEF OwnFresh, Knows, Unanswerable
    <3>3. local'[t].chal = local[t].chal /\ Idle(t)
      BY <1>3, <1>4, <1>5, <3>1
    <3>4. OwnResult(t)'
      BY <2>1, <3>1, <3>3 DEF OwnResult, Unanswerable
    <3> QED BY <2>1, <3>2, <3>4 DEF OwnThread
  <2> QED BY <2>2, <2>3
<1>7. \A u \in Threads \ {t} : /\ local'[u] = local[u] /\ fresh'[u] = fresh[u]
                               /\ flight'[u] = flight[u] /\ result'[u] = result[u]
  BY <1>1, <1>4 DEF TypeOK
<1>8. /\ \A q \in Requests : sends'[q] >= sends[q] /\ atStart'[q] = atStart[q]
      /\ sends' \in [Requests -> Nat]
  BY <1>1, <1>4 DEF TypeOK
<1>9. \A q \in Requests : state[q] # "new" => state'[q] # "new" /\ header'[q] = header[q]
  <2> TAKE q \in Requests
  <2>1. q # r => state'[q] = state[q] /\ header'[q] = header[q]
    BY <1>1, <1>4 DEF TypeOK
  <2> QED BY <1>4, <2>1
<1> QED BY <1>1, <1>6, <1>7, <1>8, <1>9, OthersKeep

LEMMA OwnSend ==
    ASSUME DigestInv, OwnInv, NEW t \in Threads, NEW r \in Requests, Send(t, r)
    PROVE  OwnInv'
<1> DEFINE g == Flight(r, header[r], Body[r] # "none", atStart[r], 0, Own(t, r))
<1>1. TypeOK /\ r # None /\ sends[r] \in Nat /\ Idle(t)
  BY DigestAssumption DEF DigestInv, TypeOK, Send
<1>2. /\ sends' = [sends EXCEPT ![r] = sends[r] + 1]
      /\ fresh' = [fresh EXCEPT ![t] = None]
      /\ UNCHANGED <<local, header, state>>
      /\ \/ /\ header[r] = Null
            /\ result' = [result EXCEPT ![t] =
                   [how |-> "NoHeader", req |-> r, own |-> Own(t, r), hops |-> 0]]
            /\ UNCHANGED <<flight, atStart>>
         \/ /\ flight' = [flight EXCEPT ![t] = g]
            /\ atStart' = [atStart EXCEPT ![r] = @ /\ Body[r] \notin Streams]
            /\ UNCHANGED result
  BY <1>1 DEF Send, TypeOK
<1>3. /\ g.req = r /\ g.own = Own(t, r) /\ g.whole = atStart[r] /\ g.tries = 1
      /\ g.body = (Body[r] # "none")
  BY DEF Flight
<1>4. Own(t, r) => /\ Knows(t, r) /\ local[t].calls = 1 /\ atStart[r]
                   /\ header[r] = Null => Unanswerable(t)
  BY <1>1 DEF Own, OwnInv, OwnThread, OwnFresh
<1> HIDE DEF g
<1>5. sends'[r] > 0 /\ fresh'[t] = None /\ sends' \in [Requests -> Nat]
  BY <1>1, <1>2 DEF TypeOK
<1>6. OwnThread(t)'
  <2>1. OwnResult(t) /\ t \in DOMAIN result /\ t \in DOMAIN flight
    BY <1>1 DEF OwnInv, OwnThread, TypeOK
  <2>2. CASE /\ header[r] = Null /\ UNCHANGED flight
             /\ result' = [result EXCEPT ![t] =
                   [how |-> "NoHeader", req |-> r, own |-> Own(t, r), hops |-> 0]]
    <3>1. result'[t] = [how |-> "NoHeader", req |-> r, own |-> Own(t, r), hops |-> 0]
      BY <2>1, <2>2
    <3>2. Own(t, r) => Unanswerable(t)'
      BY <1>2, <1>4, <2>2 DEF Unanswerable
    <3>3. OwnResult(t)'
      BY <3>1, <3>2 DEF OwnResult
    <3> QED BY <1>1, <1>5, <2>2, <3>3 DEF OwnThread, Idle
  <2>3. CASE flight' = [flight EXCEPT ![t] = g] /\ UNCHANGED result
    <3>1. flight'[t] = g
      BY <2>1, <2>3
    <3>2. Own(t, r) => OwnFlight(t)'
      BY <1>2, <1>3, <1>4, <3>1 DEF OwnFlight, Knows
    <3>3. OwnResult(t)'
      BY <1>1, <1>2, <2>1, <2>3 DEF OwnResult, Unanswerable
    <3> QED BY <1>3, <1>5, <3>1, <3>2, <3>3 DEF OwnThread
  <2> QED BY <1>2, <2>2, <2>3
<1>7. \A u \in Threads \ {t} : /\ local'[u] = local[u] /\ fresh'[u] = fresh[u]
                               /\ flight'[u] = flight[u] /\ result'[u] = result[u]
  BY <1>1, <1>2 DEF TypeOK
<1>8. /\ \A q \in Requests : sends'[q] >= sends[q]
      /\ \A q \in Requests : sends'[q] = 0 \/ Body[q] \notin Streams =>
             (atStart[q] => atStart'[q])
  <2>1. ASSUME NEW q \in Requests, q = r
        PROVE  /\ sends'[q] >= sends[q]
               /\ sends'[q] = 0 \/ Body[q] \notin Streams => (atStart[q] => atStart'[q])
    BY <1>1, <1>2, <1>5, <2>1 DEF TypeOK
  <2>2. ASSUME NEW q \in Requests, q # r
        PROVE  sends'[q] = sends[q] /\ atStart'[q] = atStart[q] /\ sends[q] \in Nat
    BY <1>1, <1>2, <2>2 DEF TypeOK
  <2> QED BY <2>1, <2>2
<1>9. \A q \in Requests : state[q] # "new" => state'[q] # "new" /\ header'[q] = header[q]
  BY <1>2
<1> QED BY <1>1, <1>5, <1>6, <1>7, <1>8, <1>9, OthersKeep

\* A thread whose call is answered has not prepared anything since; the body
\* of its request was sent before.
LEMMA OwnRespond ==
    ASSUME DigestInv, OwnInv, NEW t \in Threads, ~Idle(t),
           UNCHANGED <<sends, fresh, state, header>>,
           \A u \in Threads \ {t} : /\ local'[u] = local[u]
                                    /\ flight'[u] = flight[u] /\ result'[u] = result[u],
           \A r \in Requests \ {flight[t].req} : atStart'[r] = atStart[r],
           Body[flight[t].req] \notin Streams =>
               (atStart[flight[t].req] => atStart'[flight[t].req]),
           \/ /\ ~Idle(t)' /\ flight'[t].req = flight[t].req
              /\ flight'[t].own = flight[t].own
              /\ flight[t].own => OwnFlight(t)'
              /\ result'[t] = result[t]
           \/ Idle(t)' /\ OwnResult(t)'
    PROVE  OwnInv'
<1>1. TypeOK /\ fresh'[t] = None /\ sends[flight[t].req] > 0
  BY DEF DigestInv, OwnInv, OwnThread, OwnFresh
<1>2. OwnThread(t)'
  <2>1. CASE Idle(t)' /\ OwnResult(t)'
    BY <1>1, <2>1 DEF OwnThread
  <2>2. CASE ~Idle(t)' /\ result'[t] = result[t]
    <3>1. OwnResult(t)'
      BY <2>2 DEF OwnInv, OwnThread, OwnResult
    <3> QED BY <1>1, <2>2, <3>1 DEF OwnThread
  <2> QED BY <2>1, <2>2
<1>3. /\ \A r \in Requests : sends'[r] >= sends[r]
      /\ \A r \in Requests : sends'[r] = 0 \/ Body[r] \notin Streams =>
             (atStart[r] => atStart'[r])
  <2>1. \A r \in Requests : sends'[r] = sends[r] /\ sends[r] \in Nat
    BY <1>1 DEF TypeOK
  <2>2. ASSUME NEW r \in Requests, sends'[r] = 0 PROVE r # flight[t].req
    BY <1>1, <2>1, <2>2
  <2> QED BY <2>1, <2>2
<1>4. /\ \A u \in Threads \ {t} : /\ local'[u] = local[u] /\ fresh'[u] = fresh[u]
                                  /\ flight'[u] = flight[u] /\ result'[u] = result[u]
      /\ \A r \in Requests : state[r] # "new" =>
             state'[r] # "new" /\ header'[r] = header[r]
      /\ sends' \in [Requests -> Nat]
  BY <1>1 DEF TypeOK
<1> QED BY <1>1, <1>2, <1>3, <1>4, OthersKeep

\* Only a file is ever moved by handle_401.
LEMMA SeekKeeps ==
    ASSUME NEW t \in Threads, Looks(t), Body[flight[t].req] \notin Streams
    PROVE  AfterSeek(t) = atStart[flight[t].req]
<1>1. local[t].pos = None
  BY DEF Looks, Misses, NoBody, NoSeek, Streams
<1> QED BY <1>1 DEF AfterSeek

\* What is sent again in answer to a challenge stands at its start, but for a
\* generator.
LEMMA SeekRewinds ==
    ASSUME DigestInv, OwnInv, NEW t \in Threads, Looks(t),
           OwnFlight(t), flight[t].body, Body[flight[t].req] # "generator"
    PROVE  AfterSeek(t)
<1>1. flight[t].req \in Requests /\ Knows(t, flight[t].req)
  BY DEF DigestInv, TypeOK, Looks, Idle, Flights, OwnFlight
<1>2. Body[flight[t].req] \in {"form", "file", "tape"}
  BY <1>1, DigestAssumption DEF BodyKinds, OwnFlight, Knows
<1>3. CASE Body[flight[t].req] = "form"
  <2>1. atStart[flight[t].req]
    BY <1>1, <1>3 DEF OwnInv, Streams
  <2>2. local[t].pos = None
    BY <1>1, <1>3 DEF Knows, Position
  <2> QED BY <2>1, <2>2 DEF AfterSeek
<1>4. CASE Body[flight[t].req] = "file"
  <2>1. local[t].pos = Start[flight[t].req] /\ Start[flight[t].req] # None
    BY <1>1, <1>4, DigestAssumption DEF Knows, Position
  <2> QED BY <2>1 DEF AfterSeek
<1>5. CASE Body[flight[t].req] = "tape"
  <2>1. local[t].pos # None
    BY <1>1, <1>5, DigestAssumption DEF Knows, Position
  <2> QED BY <1>5, <2>1 DEF Looks, Misses, NoSeek
<1> QED BY <1>2, <1>3, <1>4, <1>5

LEMMA OwnChallenge ==
    ASSUME DigestInv, OwnInv, NEW t \in Threads, NEW chal \in Challenges,
           Challenge(t, chal)
    PROVE  OwnInv'
<1> DEFINE f == flight[t]
           l == Answering(local[t], chal)
           h == DigestHeader(t, l)
           g == [f EXCEPT !.header = h, !.tries = @ + 1, !.whole = f.body => AfterSeek(t)]
<1>1. TypeOK /\ local[t] \in Locals /\ Looks(t)
  BY DEF DigestInv, TypeOK, Challenge, Challenged
<1>2. ~Idle(t) /\ f \in Flights /\ f.tries = 1 /\ f.req \in Requests
  BY <1>1 DEF TypeOK, Looks, Idle, Flights
<1>3. l \in Locals /\ l.chal = chal /\ l.init = local[t].init /\ l.pos = local[t].pos
  BY <1>1, AnsweringType DEF Challenge
<1>4. /\ local' = [local EXCEPT ![t] = AfterHeader(l)]
      /\ \/ h = Null /\ SeekBody(t) /\ Finish(t, "NoHeader")
         \/ /\ UNCHANGED result
            /\ flight' = [flight EXCEPT ![t] = g]
            /\ atStart' = [atStart EXCEPT ![f.req] =
                   AfterSeek(t) /\ ~(f.body /\ Body[f.req] \in Streams)]
      /\ UNCHANGED <<sends, fresh, state, header>>
  BY DEF Challenge
<1> HIDE DEF l
<1>5. /\ local'[t].init = local[t].init /\ local'[t].pos = local[t].pos
      /\ local'[t].chal = chal
  BY <1>1, <1>3, <1>4, HeaderFacts DEF TypeOK
<1>6. /\ \A u \in Threads \ {t} : /\ local'[u] = local[u] /\ flight'[u] = flight[u]
                                  /\ result'[u] = result[u]
      /\ \A r \in Requests \ {f.req} : atStart'[r] = atStart[r]
  BY <1>1, <1>4 DEF TypeOK, SeekBody, Finish
<1>7. Body[f.req] \notin Streams => (atStart[f.req] => atStart'[f.req])
  BY <1>1, <1>2, <1>4, SeekKeeps DEF SeekBody, TypeOK
<1>8. CASE h = Null /\ SeekBody(t) /\ Finish(t, "NoHeader")
  <2>1. Idle(t)' /\ result'[t].how = "NoHeader"
    BY <1>1, <1>8 DEF Finish, Idle, TypeOK
  <2>2. Unanswerable(t)'
    BY <1>3, <1>5, <1>8, NullHeader DEF Unanswerable
  <2>3. OwnResult(t)'
    BY <2>1, <2>2 DEF OwnResult
  <2> QED BY <1>2, <1>4, <1>6, <1>7, <2>1, <2>3, OwnRespond
<1>9. CASE ~(h = Null /\ SeekBody(t) /\ Finish(t, "NoHeader"))
  <2>1. /\ g.req = f.req /\ g.own = f.own /\ g.tries = 2 /\ g.body = f.body
        /\ g.hops = f.hops /\ g.whole = (f.body => AfterSeek(t))
    BY <1>2 DEF Flights
  <2>2. flight'[t] = g /\ result'[t] = result[t]
    BY <1>1, <1>4, <1>9 DEF TypeOK
  <2>3. g # None /\ ~Idle(t)'
    <3>1. h \in Headers \cup {Null} /\ AfterSeek(t) \in BOOLEAN
      BY <1>1, <1>2, <1>3, HeaderFacts, SeekType
    <3>2. g \in Flights
      <4>1. f.tries + 1 \in Nat /\ (f.body => AfterSeek(t)) \in BOOLEAN
        BY <1>2, <3>1 DEF Flights
      <4> HIDE DEF f, h
      <4> QED BY <1>2, <3>1, <4>1 DEF Flights
    <3> HIDE DEF g
    <3> QED BY <2>2, <3>2, RecordAssumption DEF Idle
  <2> HIDE DEF g
  <2>4. ASSUME f.own PROVE OwnFlight(t)'
    <3>1. OwnFlight(t)
      BY <1>2, <2>4 DEF OwnInv, OwnThread
    <3>2. Body[f.req] # "generator" => g.whole
      BY <1>1, <2>1, <3>1, SeekRewinds
    <3>4. g.tries # 1 /\ g.tries > 1
      BY <2>1
    <3>5. /\ g.body => Body[g.req] # "none"
          /\ g.hops = 0 /\ Body[g.req] # "none" => g.body
      BY <2>1, <3>1 DEF OwnFlight
    <3>6. flight'[t].req = f.req
      BY <2>1, <2>2
    <3>7. Knows(t, flight[t].req)'
      BY <1>5, <3>1, <3>6 DEF OwnFlight, Knows
    <3> QED BY <2>1, <2>2, <3>2, <3>4, <3>5, <3>7 DEF OwnFlight
  <2> QED BY <1>2, <1>4, <1>6, <1>7, <2>1, <2>2, <2>3, <2>4, OwnRespond
<1> QED BY <1>8, <1>9

LEMMA OwnRedirect ==
    ASSUME DigestInv, OwnInv, NEW t \in Threads, NEW keepBody \in BOOLEAN,
           Redirect(t, keepBody)
    PROVE  OwnInv'
<1> DEFINE f == flight[t]
           body == f.body /\ keepBody
           whole == body => Body[f.req] = "file" \/ atStart[f.req]
           g == Flight(f.req, header[f.req], body, whole, f.hops + 1, f.own)
<1>1. TypeOK /\ ~Idle(t) /\ f \in Flights /\ f.req \in Requests /\ local[t] \in Locals
  BY DEF DigestInv, TypeOK, Redirect, Idle, Flights
<1>2. /\ g.req = f.req /\ g.own = f.own /\ g.tries = 1 /\ g.whole = whole
      /\ g.body = body /\ g.hops = f.hops + 1
  BY DEF Flight
<1>3. /\ flight' = [flight EXCEPT ![t] = g]
      /\ local' = [local EXCEPT ![t].calls = 1]
      /\ body => Body[f.req] # "tape"
      /\ UNCHANGED <<sends, atStart, fresh, result, state, header>>
  BY DEF Redirect
<1>4. flight'[t] = g /\ g # None
  <2>1. g \in Flights
    <3>1. header[f.req] \in Headers \cup {None, Null} /\ f.hops + 1 \in 0..MaxHops
              /\ f.own \in BOOLEAN /\ body \in BOOLEAN /\ whole \in BOOLEAN
      BY <1>1, DigestAssumption DEF Redirect, TypeOK, Flights
    <3> HIDE DEF body, whole
    <3> QED BY <1>1, <3>1 DEF Flight, Flights
  <2> HIDE DEF g
  <2> QED BY <1>1, <1>3, <2>1, RecordAssumption DEF TypeOK
<1> HIDE DEF g
<1>5. /\ local'[t].init = local[t].init /\ local'[t].pos = local[t].pos
      /\ local'[t].calls = 1
  BY <1>1, <1>3 DEF TypeOK, Locals
<1>6. \A u \in Threads \ {t} : local'[u] = local[u] /\ flight'[u] = flight[u]
  BY <1>1, <1>3 DEF TypeOK
<1>7. ASSUME f.own PROVE OwnFlight(t)'
  <2>1. OwnFlight(t)
    BY <1>1, <1>7 DEF OwnInv, OwnThread
  <2>2. f.hops \in Nat
    BY <1>1, DigestAssumption DEF Flights
  <2>3. flight'[t].req = f.req
    BY <1>2, <1>4
  <2>4. Knows(t, flight[t].req)'
    BY <1>5, <2>1, <2>3 DEF OwnFlight, Knows
  <2>5. g.body => Body[g.req] # "none"
    BY <1>2, <2>1 DEF OwnFlight
  <2>6. g.hops # 0 /\ g.hops > 0
    BY <1>2, <2>2
  <2>7. whole \/ Body[f.req] = "generator"
    <3> SUFFICES ASSUME body, Body[f.req] # "generator", Body[f.req] # "file"
                 PROVE  atStart[f.req]
      OBVIOUS
    <3>1. Body[f.req] = "form"
      BY <1>1, <1>3, <2>1, DigestAssumption DEF BodyKinds, OwnFlight, Knows
    <3> QED BY <1>1, <3>1 DEF OwnInv, Streams
  <2> HIDE DEF whole
  <2> QED BY <1>2, <1>4, <1>5, <2>4, <2>5, <2>6, <2>7 DEF OwnFlight
<1> QED BY <1>1, <1>2, <1>3, <1>4, <1>6, <1>7, OwnRespond DEF Idle

\* How a call ends, and what that tells of the thread.
LEMMA EndOutcome ==
    ASSUME TypeOK, NEW t \in Threads, Ends(t)
    PROVE  \E how :
              /\ Finish(t, how) /\ how # "NoHeader"
              /\ how = "unanswered" =>
                     flight[t].tries = 1 /\ local[t].calls # None /\ ~MayAnswer(local[t])
              /\ how = "NoCount" => flight[t].tries = 1 /\ local[t].calls = None
              /\ how = "NoThreadState" => NoThreadState(t)
              /\ how = "NoBody" => NoBody(t)
              /\ how = "NoSeek" => NoSeek(t)
<1>1. CASE \/ SendFails(t) \/ Answered(t) \/ RedirectFails(t)
           \/ \E keepBody \in BOOLEAN : RedirectStops(t, keepBody)
           \/ Refused(t) \/ RefusedAgain(t)
           \/ \E chal \in Challenges : ChallengeBreaks(t, chal)
  <2>1. PICK how \in {"ConnectionError", "returned", "UnrewindableBodyError",
                      "ContentError"} : Finish(t, how)
    BY <1>1 DEF SendFails, Answered, RedirectFails, RedirectStops, Refused,
                RefusedAgain, ChallengeBreaks
  <2> QED BY <2>1
<1>2. CASE RefusedBadly(t)
  BY <1>2 DEF RefusedBadly, Misses
<1>3. CASE \E chal \in Challenges : NotCounted(t, chal)
  <2>1. Finish(t, "NoCount") /\ flight[t].tries = 1 /\ local[t].calls = None
    BY <1>3 DEF NotCounted, Challenged, Looks
  <2> QED BY <2>1
<1>4. CASE \E chal \in Challenges : GiveUp(t, chal)
  <2>1. /\ Finish(t, "unanswered") /\ flight[t].tries = 1
        /\ local[t].calls # None /\ ~MayAnswer(local[t])
    BY <1>4 DEF GiveUp, Challenged, Looks
  <2> QED BY <2>1
<1> QED BY <1>1, <1>2, <1>3, <1>4 DEF Ends

\* The end of a call leaves bodies that are no streams where they are.
LEMMA EndKeeps ==
    ASSUME TypeOK, NEW t \in Threads, Ends(t), flight[t].req \in Requests,
           Body[flight[t].req] \notin Streams, atStart[flight[t].req]
    PROVE  atStart'[flight[t].req]
<1>1. ASSUME SeekBody(t), Looks(t) PROVE atStart'[flight[t].req]
  <2>1. AfterSeek(t)
    BY <1>1, SeekKeeps
  <2> QED BY <1>1, <2>1 DEF SeekBody, TypeOK
<1>2. CASE \/ SendFails(t) \/ Answered(t) \/ RedirectFails(t)
           \/ RefusedBadly(t) \/ RefusedAgain(t)
  BY <1>2 DEF SendFails, Answered, RedirectFails, RefusedBadly, RefusedAgain
<1>3. CASE \E keepBody \in BOOLEAN : RedirectStops(t, keepBody)
  BY <1>3 DEF RedirectStops, TypeOK
<1>4. CASE Refused(t)
  BY <1>1, <1>4 DEF Refused
<1>5. CASE \E chal \in Challenges : NotCounted(t, chal) \/ GiveUp(t, chal)
                                     \/ ChallengeBreaks(t, chal)
  BY <1>1, <1>5 DEF NotCounted, GiveUp, ChallengeBreaks, Challenged
<1> QED BY <1>2, <1>3, <1>4, <1>5 DEF Ends

LEMMA OwnEnd ==
    ASSUME DigestInv, OwnInv, NEW t \in Threads, Ends(t)
    PROVE  OwnInv'
<1>1. TypeOK /\ ~Idle(t) /\ flight[t] \in Flights /\ flight[t].req \in Requests
          /\ UNCHANGED <<sends, fresh, state, header>>
  BY EndFacts DEF DigestInv, Flights
<1>2. PICK how :
          /\ Finish(t, how) /\ how # "NoHeader"
          /\ how = "unanswered" =>
                 flight[t].tries = 1 /\ local[t].calls # None /\ ~MayAnswer(local[t])
          /\ how = "NoCount" => flight[t].tries = 1 /\ local[t].calls = None
          /\ how = "NoThreadState" => NoThreadState(t)
          /\ how = "NoBody" => NoBody(t)
          /\ how = "NoSeek" => NoSeek(t)
  BY <1>1, EndOutcome
<1>3. /\ flight'[t] = None
      /\ result'[t] = [how |-> how, req |-> flight[t].req, own |-> flight[t].own,
                       hops |-> flight[t].hops]
      /\ \A u \in Threads \ {t} : flight'[u] = flight[u] /\ result'[u] = result[u]
  BY <1>1, <1>2 DEF Finish, TypeOK
<1>4. \A u \in Threads \ {t} : local'[u] = local[u]
  <2>1. \E k : local' = local \/ local' = [local EXCEPT ![t] = k]
    BY EndFacts
  <2> QED BY <1>1, <2>1 DEF TypeOK
<1>5. \A r \in Requests \ {flight[t].req} : atStart'[r] = atStart[r]
  BY <1>1, EndFacts DEF TypeOK, SeekBody
<1>6. Body[flight[t].req] \notin Streams =>
          (atStart[flight[t].req] => atStart'[flight[t].req])
  BY <1>1, EndKeeps
<1>7. OwnResult(t)'
  <2> SUFFICES ASSUME flight[t].own
               PROVE  /\ how \notin {"unanswered", "NoThreadState", "NoCount"}
                      /\ how = "NoBody" => flight[t].hops > 0
                      /\ how = "NoSeek" => Body[flight[t].req] = "tape"
    BY <1>2, <1>3 DEF OwnResult
  <2>1. OwnFlight(t)
    BY <1>1 DEF OwnInv, OwnThread
  <2>2. how # "unanswered" /\ how # "NoCount"
    BY <1>2, <2>1, DigestAssumption DEF OwnFlight, MayAnswer
  <2>3. how # "NoThreadState"
    BY <1>2, <2>1 DEF OwnFlight, NoThreadState, Knows
  <2>4. local[t].pos # None => Body[flight[t].req] \in {"file", "tape"}
    BY <2>1 DEF OwnFlight, Knows, Position
  <2>5. how = "NoBody" => flight[t].hops # 0
    BY <1>2, <2>1, <2>4 DEF OwnFlight, NoBody
  <2>6. how = "NoSeek" => Body[flight[t].req] = "tape"
    BY <1>2, <2>4 DEF NoSeek
  <2>7. flight[t].hops \in Nat
    BY <1>1, DigestAssumption DEF Flights
  <2> QED BY <2>2, <2>3, <2>5, <2>6, <2>7
<1> QED BY <1>1, <1>3, <1>4, <1>5, <1>6, <1>7, OwnRespond DEF Idle

LEMMA OwnInit == Init => OwnInv
<1> SUFFICES ASSUME Init PROVE OwnInv
  OBVIOUS
<1>1. \A t \in Threads : fresh[t] = None /\ Idle(t) /\ ~result[t].own
  BY DEF Init, Idle
<1>2. \A r \in Requests : atStart[r]
  BY DEF Init
<1> QED BY <1>1, <1>2 DEF OwnInv, OwnThread, OwnResult

LEMMA OwnStep == DigestInv /\ OwnInv /\ [Next]_vars => OwnInv'
<1> SUFFICES ASSUME DigestInv, OwnInv, [Next]_vars PROVE OwnInv'
  OBVIOUS
<1>1. CASE UNCHANGED vars
  BY <1>1 DEF vars, OwnInv, OwnThread, OwnFresh, OwnFlight, OwnResult, Knows,
              Unanswerable, Idle
<1>2. ASSUME NEW t \in Threads,
             \/ \E r \in Requests : Prepare(t, r)
             \/ \E r \in Requests : Send(t, r)
             \/ Respond(t)
      PROVE  OwnInv'
  BY <1>2, OwnPrepare, OwnSend, OwnEnd, OwnRedirect, OwnChallenge, RespondCases
<1> QED BY <1>1, <1>2 DEF Next

LEMMA OwnAlways == Spec => []OwnInv
BY DigestAlways, OwnInit, OwnStep, PTL DEF Spec

\* Whatever else the auth object was used for, a request that its thread sends
\* right away goes out whole every time, a generator the first time.
THEOREM OwnBodiesWhole == Spec => []OwnBodyWhole
<1>1. OwnInv => OwnBodyWhole
  BY DEF OwnInv, OwnThread, OwnFlight, OwnBodyWhole
<1> QED BY <1>1, OwnAlways, PTL

\* And the server's challenges to it are answered: handle_401 fails for it only
\* on account of its own body and its own challenge.
THEOREM OwnChallengesAnswered == Spec => []OwnChallengeAnswered
<1>1. OwnInv => OwnChallengeAnswered
  BY DEF OwnInv, OwnThread, OwnResult, Unanswerable, OwnChallengeAnswered
<1> QED BY <1>1, OwnAlways, PTL

-----------------------------------------------------------------------------
(* The end of a call.                                                      *)

\* How many more answers of the server a call can take: two for each redirect
\* that may follow, and two, or one after a challenge, for the request that is
\* on its way.
AnswersLeft(t) ==
    IF Idle(t) THEN 0
    ELSE 2 * (MaxHops - flight[t].hops) + (IF flight[t].tries = 1 THEN 2 ELSE 1)

\* Each answer brings the call nearer to its end, and no step of another thread
\* sets it back.
AnswersRunOut ==
    [][\A t \in Threads :
          /\ Respond(t) => AnswersLeft(t)' < AnswersLeft(t)
          /\ ~Idle(t) /\ ~Respond(t) => AnswersLeft(t)' = AnswersLeft(t)]_vars

LEMMA AnswersCounted ==
    ASSUME DigestInv, NEW t \in Threads
    PROVE  AnswersLeft(t) \in Nat
<1>1. CASE Idle(t)
  BY <1>1 DEF AnswersLeft
<1>2. CASE ~Idle(t)
  <2>1. flight[t] \in Flights
    BY <1>2 DEF DigestInv, TypeOK, Idle
  <2>2. MaxHops \in Nat /\ flight[t].hops \in 0..MaxHops
    BY <2>1, DigestAssumption DEF Flights
  <2> QED BY <1>2, <2>2 DEF AnswersLeft
<1> QED BY <1>1, <1>2

\* A call in flight has an answer left, so the last answer ends it.
LEMMA AnswerIsLeft ==
    ASSUME DigestInv, NEW t \in Threads, ~Idle(t)
    PROVE  AnswersLeft(t) > 0
<1>1. flight[t] \in Flights
  BY DEF DigestInv, TypeOK, Idle
<1>2. MaxHops \in Nat /\ flight[t].hops \in 0..MaxHops
  BY <1>1, DigestAssumption DEF Flights
<1> QED BY <1>2 DEF AnswersLeft

LEMMA AnswerCounts ==
    ASSUME DigestInv, NEW t \in Threads, Respond(t)
    PROVE  AnswersLeft(t)' < AnswersLeft(t)
<1>1. ~Idle(t)
  BY RespondCases, EndFacts DEF Redirect, Challenge, Challenged, Looks
<1>2. /\ flight \in [Threads -> Flights \cup {None}] /\ flight[t] \in Flights
  BY <1>1 DEF DigestInv, TypeOK, Idle
<1>3. /\ MaxHops \in Nat /\ flight[t].hops \in 0..MaxHops
  BY <1>2, DigestAssumption DEF Flights
\* The call is over.
<1>4. ASSUME flight'[t] = None
      PROVE  AnswersLeft(t)' < AnswersLeft(t)
  <2>1. AnswersLeft(t)' = 0
    BY <1>4 DEF AnswersLeft, Idle
  <2> QED BY <1>1, <2>1, AnswerIsLeft
<1>5. ASSUME NEW how, Finish(t, how)
      PROVE  AnswersLeft(t)' < AnswersLeft(t)
  BY <1>2, <1>4, <1>5 DEF Finish
<1>6. ASSUME NEW keepBody \in BOOLEAN, Redirect(t, keepBody)
      PROVE  AnswersLeft(t)' < AnswersLeft(t)
  <2>1. flight'[t].hops = flight[t].hops + 1 /\ flight'[t].tries = 1
    BY <1>2, <1>6 DEF Redirect, Flight
  <2>2. CASE flight'[t] # None
    <3>1. AnswersLeft(t)' = 2 * (MaxHops - (flight[t].hops + 1)) + 2
      BY <2>1, <2>2 DEF AnswersLeft, Idle
    <3>2. \E k \in 1..2 : AnswersLeft(t) = 2 * (MaxHops - flight[t].hops) + k
      BY <1>1 DEF AnswersLeft
    <3> QED BY <1>3, <3>1, <3>2
  <2> QED BY <1>4, <2>2
<1>7. ASSUME NEW chal \in Challenges, Challenge(t, chal)
      PROVE  AnswersLeft(t)' < AnswersLeft(t)
  <2>1. CASE Finish(t, "NoHeader")
    BY <1>5, <2>1
  <2>2. CASE flight'[t] = None
    BY <1>4, <2>2
  <2>3. CASE ~Finish(t, "NoHeader") /\ flight'[t] # None
    <3>1. flight[t].tries = 1
      BY <1>7 DEF Challenge, Challenged, Looks
    <3>2. PICK h : flight' = [flight EXCEPT ![t] =
                      [flight[t] EXCEPT !.header = h, !.tries = @ + 1,
                                        !.whole = flight[t].body => AfterSeek(t)]]
      BY <1>7, <2>3 DEF Challenge
    <3>3. flight'[t].hops = flight[t].hops /\ flight'[t].tries = 2
      BY <1>2, <3>1, <3>2 DEF Flights
    <3>4. AnswersLeft(t)' = 2 * (MaxHops - flight[t].hops) + 1
      BY <2>3, <3>3 DEF AnswersLeft, Idle
    <3>5. AnswersLeft(t) = 2 * (MaxHops - flight[t].hops) + 2
      BY <1>1, <3>1 DEF AnswersLeft
    <3> QED BY <1>3, <3>4, <3>5
  <2> QED BY <2>1, <2>2, <2>3
<1>8. CASE Ends(t)
  BY <1>5, <1>8, EndFacts
<1> QED BY <1>6, <1>7, <1>8, RespondCases

\* Only the answer to a call changes what is in flight for its thread.
LEMMA OthersLeaveFlights ==
    ASSUME DigestInv, [Next]_vars, NEW t \in Threads, ~Idle(t), ~Respond(t)
    PROVE  flight'[t] = flight[t]
<1>1. flight \in [Threads -> Flights \cup {None}]
  BY DEF DigestInv, TypeOK
<1>2. ASSUME NEW u \in Threads, NEW r \in Requests, Prepare(u, r)
      PROVE  flight'[t] = flight[t]
  BY <1>2 DEF Prepare
<1>3. ASSUME NEW u \in Threads, NEW r \in Requests, Send(u, r)
      PROVE  flight'[t] = flight[t]
  <2>1. u # t
    BY <1>3 DEF Send
  <2> QED BY <1>1, <1>3, <2>1 DEF Send
<1>4. ASSUME NEW u \in Threads, Respond(u)
      PROVE  flight'[t] = flight[t]
  <2>1. u # t
    BY <1>4
  <2>2. CASE Ends(u)
    <3>1. PICK how : Finish(u, how)
      BY <2>2, EndFacts
    <3> QED BY <1>1, <2>1, <3>1 DEF Finish
  <2>3. CASE \E keepBody \in BOOLEAN : Redirect(u, keepBody)
    BY <1>1, <2>1, <2>3 DEF Redirect
  <2>4. CASE \E chal \in Challenges : Challenge(u, chal)
    BY <1>1, <2>1, <2>4 DEF Challenge, Finish
  <2> QED BY <1>4, <2>2, <2>3, <2>4, RespondCases
<1>5. CASE UNCHANGED vars
  BY <1>5 DEF vars
<1> QED BY <1>2, <1>3, <1>4, <1>5 DEF Next

LEMMA AnswersStep ==
    ASSUME DigestInv, [Next]_vars
    PROVE  \A t \in Threads :
              /\ Respond(t) => AnswersLeft(t)' < AnswersLeft(t)
              /\ ~Idle(t) /\ ~Respond(t) => AnswersLeft(t)' = AnswersLeft(t)
<1> SUFFICES ASSUME NEW t \in Threads
             PROVE  /\ Respond(t) => AnswersLeft(t)' < AnswersLeft(t)
                    /\ ~Idle(t) /\ ~Respond(t) => AnswersLeft(t)' = AnswersLeft(t)
  OBVIOUS
<1>1. Respond(t) => AnswersLeft(t)' < AnswersLeft(t)
  BY AnswerCounts
<1>2. ASSUME ~Idle(t), ~Respond(t)
      PROVE  AnswersLeft(t)' = AnswersLeft(t)
  <2>1. flight'[t] = flight[t]
    BY <1>2, OthersLeaveFlights
  <2> QED BY <2>1 DEF AnswersLeft, Idle
<1> QED BY <1>1, <1>2

\* No server can keep a call busy for ever by challenging and redirecting it: a
\* call is over after at most 2 * MaxHops + 2 answers, whatever the other
\* threads do to the auth object in between.
THEOREM AnswersAreBounded ==
    Spec => AnswersRunOut /\ [](\A t \in Threads : AnswersLeft(t) \in Nat)
<1>1. DigestInv /\ [Next]_vars =>
        [\A t \in Threads :
            /\ Respond(t) => AnswersLeft(t)' < AnswersLeft(t)
            /\ ~Idle(t) /\ ~Respond(t) => AnswersLeft(t)' = AnswersLeft(t)]_vars
  BY AnswersStep
<1>2. DigestInv => \A t \in Threads : AnswersLeft(t) \in Nat
  BY AnswersCounted
<1> QED BY <1>1, <1>2, DigestAlways, PTL DEF Spec, AnswersRunOut
=============================================================================
