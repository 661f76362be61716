----------------------------- MODULE DigestAuth -----------------------------
(***************************************************************************)
(* requests/auth.py HTTPDigestAuth: one auth object, shared by the threads *)
(* of a program and by the requests they prepare and send.  What it knows  *)
(* of the server is kept per thread (threading.local); a prepared request  *)
(* may be sent by another thread than the one that prepared it, later, and *)
(* more than once.  Requests carry the hooks handle_401 and                *)
(* handle_redirect, which Session.send runs on the first response of every *)
(* request, the redirected ones too.                                       *)
(*                                                                         *)
(* The server is the environment.  It challenges with a fresh nonce or,    *)
(* again, with the one the refused request used.  It redirects to the same *)
(* host only, and that host has no .netrc login.                           *)
(***************************************************************************)
EXTENDS Naturals, Sequences

CONSTANTS
    Threads,
    Requests,    \* the requests that may be prepared with this auth object
    Nonces,      \* the nonces the server may issue
    None,
    Null,        \* an Authorization header that is there and has no value
    Programs,    \* the sets of requests that a program may prepare
    Body,        \* Body[r]: what kind of body request r has
    Start,       \* Start[r]: where the program has left the body, if it can tell
    Unknowns,    \* what a challenge may have that cannot be answered
    MaxSends,    \* bound: MaxSends[r] is how often prepared request r is sent
    MaxHops      \* bound: redirects of one call (Session.max_redirects)

(***************************************************************************)
(* A form is a string, and there is no limit to how often it can be sent;  *)
(* a stream is used up by the transmission.  A file tells its position and *)
(* seeks, a tape tells and does not seek, the tell of a pipe fails, a      *)
(* generator has neither.                                                  *)
(***************************************************************************)
BodyKinds == {"none", "form", "file", "tape", "pipe", "generator"}
Streams == {"file", "tape", "pipe", "generator"}

ASSUME DigestAssumption ==
    /\ None \notin Threads \cup Requests \cup Nonces \cup Nat \cup {Null}
    /\ Programs \subseteq SUBSET Requests
    /\ Body \in [Requests -> BodyKinds]
    /\ Start \in [Requests -> Nat]
    /\ Unknowns \subseteq {"nothing", "algorithm", "qop"}
    /\ MaxSends \in [Requests -> Nat]
    /\ MaxHops \in Nat

\* A challenge: its nonce, and what of it build_digest_header cannot answer.
Challenges == [nonce : Nonces, unknown : Unknowns]

\* A Digest header: the thread that made it, its nonce and nonce count.
Headers == [by : Threads, nonce : Nonces, nc : Nat \ {0}]

VARIABLES
    local,    \* local[t]: the attributes of _thread_local in thread t
    header,   \* header[r]: the Authorization header of prepared request r
    state,    \* state[r]: "absent" from the program, "new", "ready" to be sent,
              \* or "failed" to be prepared
    sends,    \* sends[r]: how often r was sent
    atStart,  \* atStart[r]: the body of r stands at its start
    fresh,    \* fresh[t]: the request t prepared in its last step, or None
    flight,   \* flight[t]: the transmission thread t waits for, or None
    result,   \* result[t]: how the last call of thread t ended
    built,    \* the headers built so far, in order
    issued    \* the nonces the server has issued

vars == <<local, header, state, sends, atStart, fresh, flight, result, built, issued>>

\* num_401_calls and pos are None from init_per_thread_state on; without init
\* the attributes do not exist.
Locals ==
    [init : BOOLEAN, lastNonce : Nonces \cup {None}, nonceCount : Nat,
     chal : Challenges \cup {None}, pos : Nat \cup {None}, calls : {None, 1, 2}]

\* own: the thread prepared the request just before; tries: transmissions of
\* this Session.send; body: there is a body, still; whole: it was sent from its
\* start; hops: redirects so far.
Flights ==
    [req : Requests, header : Headers \cup {None, Null}, body : BOOLEAN,
     whole : BOOLEAN, tries : Nat, hops : 0..MaxHops, own : BOOLEAN]

\* What is missing differs from every record.
ASSUME RecordAssumption ==
    /\ None \notin Challenges /\ None \notin Headers /\ None \notin Flights
    /\ Null \notin Headers

Outcomes ==
    {"none", "returned", "unanswered", "NoThreadState", "NoBody", "NoSeek",
     "NoCount", "NoHeader", "NoTell", "UnrewindableBodyError",
     "ConnectionError", "ContentError"}

Results ==
    [how : Outcomes, req : Requests \cup {None}, own : BOOLEAN, hops : 0..MaxHops]

TypeOK ==
    /\ local \in [Threads -> Locals]
    /\ header \in [Requests -> Headers \cup {None, Null}]
    /\ state \in [Requests -> {"absent", "new", "ready", "failed"}]
    /\ sends \in [Requests -> Nat]
    /\ atStart \in [Requests -> BOOLEAN]
    /\ fresh \in [Threads -> Requests \cup {None}]
    /\ flight \in [Threads -> Flights \cup {None}]
    /\ result \in [Threads -> Results]
    /\ built \in Seq(Headers)
    /\ issued \subseteq Nonces

Init ==
    /\ local = [t \in Threads |->
           [init |-> FALSE, lastNonce |-> None, nonceCount |-> 0,
            chal |-> None, pos |-> None, calls |-> None]]
    /\ header = [r \in Requests |-> None]
    /\ \E program \in Programs :
          state = [r \in Requests |-> IF r \in program THEN "new" ELSE "absent"]
    /\ sends = [r \in Requests |-> 0]
    /\ atStart = [r \in Requests |-> TRUE]
    /\ fresh = [t \in Threads |-> None]
    /\ flight = [t \in Threads |-> None]
    /\ result = [t \in Threads |->
           [how |-> "none", req |-> None, own |-> FALSE, hops |-> 0]]
    /\ built = <<>>
    /\ issued = {}

\* Mutant: every challenge starts a new count.
Count_Restarts(l) == 1

\* build_digest_header: the count that goes with the nonce of the challenge.
Count(l) == IF l.chal.nonce = l.lastNonce THEN l.nonceCount + 1 ELSE 1

\* What it returns: None for an algorithm or a qop that is not implemented.
DigestHeader(t, l) ==
    IF l.chal.unknown = "nothing"
    THEN [by |-> t, nonce |-> l.chal.nonce, nc |-> Count(l)] ELSE Null

\* What it leaves in the thread's attributes: it gives up on an algorithm
\* before it counts, on a qop after it.
AfterHeader(l) ==
    [l EXCEPT
       !.nonceCount = IF l.chal.unknown = "algorithm" THEN @ ELSE Count(l),
       !.lastNonce = IF l.chal.unknown = "nothing" THEN l.chal.nonce ELSE @]

NoteBuilt(h) == built' = IF h \in {None, Null} THEN built ELSE Append(built, h)

\* __call__, up to the place where it records the position of the body.
Initialised(l) == IF l.init THEN l ELSE [l EXCEPT !.init = TRUE, !.calls = None]

Idle(t) == flight[t] = None

\* body.tell(), or None for a body that has no such method.
Position(r) == IF Body[r] \in {"file", "tape"} THEN Start[r] ELSE None

\* Mutants: the position of an earlier request's body is left behind, by a body
\* that cannot tell, or by every body.
Prepared_KeepsPos(l, r) ==
    [l EXCEPT !.pos = IF Position(r) = None THEN @ ELSE Position(r), !.calls = 1]

Prepared_KeepsFirst(l, r) ==
    [l EXCEPT !.pos = IF @ = None THEN Position(r) ELSE @, !.calls = 1]

\* __call__: the position of the body, and the counter of refusals.
Prepared(l, r) == [l EXCEPT !.pos = Position(r), !.calls = 1]

\* HTTPDigestAuth.__call__, from PreparedRequest.prepare_auth.  With a saved
\* nonce the request carries a header from the start.
Prepare(t, r) ==
    LET l == Initialised(local[t])
        h == IF l.lastNonce = None THEN None ELSE DigestHeader(t, l)
        c == IF l.lastNonce = None THEN l ELSE AfterHeader(l)
    IN  /\ Idle(t)
        /\ state[r] = "new"
        /\ header' = [header EXCEPT ![r] = h]
        /\ NoteBuilt(h)
        /\ IF Body[r] = "pipe"
           THEN \* tell() raises an IOError, which __call__ lets through
                /\ local' = [local EXCEPT ![t] = c]
                /\ fresh' = [fresh EXCEPT ![t] = None]
                /\ state' = [state EXCEPT ![r] = "failed"]
                /\ result' = [result EXCEPT ![t] =
                       [how |-> "NoTell", req |-> r, own |-> TRUE, hops |-> 0]]
           ELSE /\ local' = [local EXCEPT ![t] = Prepared(c, r)]
                /\ fresh' = [fresh EXCEPT ![t] = r]
                /\ state' = [state EXCEPT ![r] = "ready"]
                /\ UNCHANGED result
        /\ UNCHANGED <<sends, atStart, flight, issued>>

-----------------------------------------------------------------------------
(* A call of Session.send.  A transmission uses up a body that is a stream. *)

Flight(r, h, body, whole, hops, own) ==
    [req |-> r, header |-> h, body |-> body, whole |-> whole,
     tries |-> 1, hops |-> hops, own |-> own]

Finish(t, how) ==
    /\ flight' = [flight EXCEPT ![t] = None]
    /\ result' = [result EXCEPT ![t] =
           [how |-> how, req |-> flight[t].req, own |-> flight[t].own,
            hops |-> flight[t].hops]]

\* The thread sends, for the first time, what it prepared in its last step.
Own(t, r) == fresh[t] = r /\ sends[r] = 0

\* Session.send of a prepared request; two threads do not send the same one
\* at once.  The HTTP library refuses a header without a value.
Send(t, r) ==
    /\ Idle(t)
    /\ state[r] = "ready"
    /\ sends[r] < MaxSends[r]
    /\ \A u \in Threads : ~Idle(u) => flight[u].req # r
    /\ sends' = [sends EXCEPT ![r] = @ + 1]
    /\ fresh' = [fresh EXCEPT ![t] = None]
    /\ IF header[r] = Null
       THEN /\ result' = [result EXCEPT ![t] =
                   [how |-> "NoHeader", req |-> r, own |-> Own(t, r), hops |-> 0]]
            /\ UNCHANGED <<flight, atStart>>
       ELSE /\ flight' = [flight EXCEPT ![t] =
                   Flight(r, header[r], Body[r] # "none", atStart[r], 0, Own(t, r))]
            /\ atStart' = [atStart EXCEPT ![r] = @ /\ Body[r] \notin Streams]
            /\ UNCHANGED result
    /\ UNCHANGED <<local, header, state, built, issued>>

\* adapter.send raises, in Session.send or in handle_401: no hook runs.
SendFails(t) ==
    /\ ~Idle(t)
    /\ Finish(t, "ConnectionError")
    /\ UNCHANGED <<local, header, state, sends, atStart, fresh, built, issued>>

\* handle_401 on a response that is no 4xx sets the counter.  A response that
\* answers the digest header is not looked at again.
Answered(t) ==
    /\ ~Idle(t)
    /\ local' = IF flight[t].tries = 1 THEN [local EXCEPT ![t].calls = 1] ELSE local
    /\ Finish(t, "returned")
    /\ UNCHANGED <<header, state, sends, atStart, fresh, built, issued>>

\* Mutant: the redirects of a call are not counted, and each is made from the
\* request that the call began with.
Redirect_Uncounted(t, keepBody) ==
    LET f == flight[t]
        body == Body[f.req] # "none" /\ keepBody
    IN  /\ ~Idle(t)
        /\ local' = [local EXCEPT ![t].calls = 1]
        /\ flight' = [flight EXCEPT ![t] =
               Flight(f.req, header[f.req], body, TRUE, f.hops, f.own)]
        /\ UNCHANGED <<header, state, sends, atStart, fresh, result, built, issued>>

\* A redirect, which handle_redirect counts as no refusal.  resolve_redirects
\* sends a copy of the prepared request, with its Authorization header and its
\* hooks.  The body is dropped, or it is rewound if it can tell its position,
\* or it goes as it stands.
Redirect(t, keepBody) ==
    LET f == flight[t]
        body == f.body /\ keepBody
    IN  /\ ~Idle(t)
        /\ f.hops < MaxHops
        /\ body => Body[f.req] # "tape"
        /\ local' = [local EXCEPT ![t].calls = 1]
        /\ flight' = [flight EXCEPT ![t] =
               Flight(f.req, header[f.req], body,
                      body => Body[f.req] = "file" \/ atStart[f.req],
                      f.hops + 1, f.own)]
        /\ UNCHANGED <<header, state, sends, atStart, fresh, result, built, issued>>

\* The body cannot be rewound (max_redirects = 0 raises before that).
RedirectFails(t) ==
    /\ ~Idle(t)
    /\ MaxHops > 0
    /\ flight[t].body /\ Body[flight[t].req] = "tape"
    /\ local' = [local EXCEPT ![t].calls = 1]
    /\ Finish(t, "UnrewindableBodyError")
    /\ UNCHANGED <<header, state, sends, atStart, fresh, built, issued>>

\* A redirect that the caller does not follow, or one too many.  The body is
\* rewound all the same, for Response.next.
RedirectStops(t, keepBody) ==
    LET f == flight[t]
        body == f.body /\ keepBody /\ MaxHops > 0
    IN  /\ ~Idle(t)
        /\ f.hops \in {0, MaxHops}
        /\ body => Body[f.req] # "tape"
        /\ local' = [local EXCEPT ![t].calls = 1]
        /\ atStart' = [atStart EXCEPT ![f.req] = @ \/ (body /\ Body[f.req] = "file")]
        /\ Finish(t, "returned")
        /\ UNCHANGED <<header, state, sends, fresh, built, issued>>

-----------------------------------------------------------------------------
(* handle_401 on a 4xx.                                                    *)

\* The thread never prepared a request with this auth object.
NoThreadState(t) == ~local[t].init

\* A position is recorded, and the body is not, or no longer, there.
NoBody(t) == local[t].pos # None /\ ~flight[t].body

\* A position is recorded, and this body has no seek, or one that raises.
NoSeek(t) ==
    local[t].pos # None /\ flight[t].body /\ Body[flight[t].req] # "file"

Misses(t) == NoThreadState(t) \/ NoBody(t) \/ NoSeek(t)

\* handle_401 raises AttributeError, or what seek raises, before it looks at
\* the challenge.
RefusedBadly(t) ==
    /\ ~Idle(t)
    /\ flight[t].tries = 1
    /\ Misses(t)
    /\ Finish(t, IF NoThreadState(t) THEN "NoThreadState"
                 ELSE IF NoBody(t) THEN "NoBody" ELSE "NoSeek")
    /\ UNCHANGED <<local, header, state, sends, atStart, fresh, built, issued>>

\* handle_401 gets past the seek.
Looks(t) == ~Idle(t) /\ flight[t].tries = 1 /\ ~Misses(t)

\* r.request.body.seek(pos), unless no position is recorded: whether the body
\* then stands at its start.
AfterSeek(t) ==
    LET r == flight[t].req
    IN  IF local[t].pos = None THEN atStart[r] ELSE local[t].pos = Start[r]

SeekBody(t) == atStart' = [atStart EXCEPT ![flight[t].req] = AfterSeek(t)]

\* A 4xx that is no digest challenge.
Refused(t) ==
    /\ Looks(t)
    /\ SeekBody(t)
    /\ local' = [local EXCEPT ![t].calls = 1]
    /\ Finish(t, "returned")
    /\ UNCHANGED <<header, state, sends, fresh, built, issued>>

\* The answer to the digest header is a refusal too: no hook sees it.
RefusedAgain(t) ==
    /\ ~Idle(t)
    /\ flight[t].tries > 1
    /\ Finish(t, "returned")
    /\ UNCHANGED <<local, header, state, sends, atStart, fresh, built, issued>>

\* A fresh nonce, or that of the header that is refused.
MayIssue(t, nonce) ==
    \/ nonce \notin issued
    \/ flight[t].header # None /\ flight[t].header.nonce = nonce

\* A digest challenge that handle_401 looks at.
Challenged(t, chal) ==
    /\ Looks(t)
    /\ MayIssue(t, chal.nonce)
    /\ issued' = issued \cup {chal.nonce}

\* The counter is still None: comparing it, or adding to it, is a TypeError.
NotCounted(t, chal) ==
    /\ Challenged(t, chal)
    /\ local[t].calls = None
    /\ SeekBody(t)
    /\ Finish(t, "NoCount")
    /\ UNCHANGED <<local, header, state, sends, fresh, built>>

\* Mutant: the counter is not looked at.
MayAnswer_Always(l) == TRUE

MayAnswer(l) == l.calls < 2

\* The challenge is not answered any more.
GiveUp(t, chal) ==
    /\ Challenged(t, chal)
    /\ local[t].calls # None /\ ~MayAnswer(local[t])
    /\ SeekBody(t)
    /\ local' = [local EXCEPT ![t].calls = 1]
    /\ Finish(t, "unanswered")
    /\ UNCHANGED <<header, state, sends, fresh, built>>

\* What handle_401 knows once it has decided to answer.
Answering(l, chal) == [l EXCEPT !.calls = @ + 1, !.chal = chal]

\* Reading the content of the challenge raises.
ChallengeBreaks(t, chal) ==
    /\ Challenged(t, chal)
    /\ local[t].calls # None /\ MayAnswer(local[t])
    /\ SeekBody(t)
    /\ local' = [local EXCEPT ![t] = Answering(local[t], chal)]
    /\ Finish(t, "ContentError")
    /\ UNCHANGED <<header, state, sends, fresh, built>>

\* A copy of the request goes out on the same connection, with the header and
\* with the body from where it stands after the seek.
Challenge(t, chal) ==
    LET f == flight[t]
        l == Answering(local[t], chal)
        h == DigestHeader(t, l)
    IN  /\ Challenged(t, chal)
        /\ local[t].calls # None /\ MayAnswer(local[t])
        /\ local' = [local EXCEPT ![t] = AfterHeader(l)]
        /\ NoteBuilt(h)
        /\ IF h = Null
           THEN SeekBody(t) /\ Finish(t, "NoHeader")
           ELSE /\ UNCHANGED result
                /\ flight' = [flight EXCEPT ![t] =
                       [f EXCEPT !.header = h, !.tries = @ + 1,
                           !.whole = f.body => AfterSeek(t)]]
                /\ atStart' = [atStart EXCEPT ![f.req] =
                       AfterSeek(t) /\ ~(f.body /\ Body[f.req] \in Streams)]
        /\ UNCHANGED <<header, state, sends, fresh>>

\* What can come of the transmission that thread t waits for.
Respond(t) ==
    \/ SendFails(t)
    \/ Answered(t)
    \/ \E keepBody \in BOOLEAN : Redirect(t, keepBody)
    \/ RedirectFails(t)
    \/ \E keepBody \in BOOLEAN : RedirectStops(t, keepBody)
    \/ RefusedBadly(t)
    \/ Refused(t)
    \/ RefusedAgain(t)
    \/ \E chal \in Challenges : NotCounted(t, chal)
    \/ \E chal \in Challenges : GiveUp(t, chal)
    \/ \E chal \in Challenges : ChallengeBreaks(t, chal)
    \/ \E chal \in Challenges : Challenge(t, chal)

Next ==
    \E t \in Threads :
        \/ \E r \in Requests : Prepare(t, r)
        \/ \E r \in Requests : Send(t, r)
        \/ Respond(t)

\* Every transmission is answered in the end; nobody has to prepare or send.
Spec == Init /\ [][Next]_vars /\ \A t \in Threads : WF_vars(Respond(t))

-----------------------------------------------------------------------------
\* A thread that stays with a nonce counts its uses one by one, over all the
\* requests it prepares and answers for, also when other threads use the same
\* auth object with nonces of their own (build_digest_header).  A qop that is
\* not implemented breaks it: the count is changed before that is found out.
NonceCountsUp ==
    \A i, j \in 1..Len(built) :
        /\ i < j
        /\ built[i].by = built[j].by /\ built[i].nonce = built[j].nonce
        /\ \A k \in (i + 1)..(j - 1) : built[k].by # built[j].by
        => built[j].nc = built[i].nc + 1

\* A request that a thread sends right after it prepared it goes out with its
\* whole body, first, in answer to a challenge and after a redirect, whatever
\* positions earlier requests have left behind (handle_401, __call__).  The
\* exception is a generator, which is whole in its first transmission only:
\* neither handle_401 nor resolve_redirects keeps it from going out used up.
OwnBodyWhole ==
    \A t \in Threads :
        LET f == flight[t]
        IN  ~Idle(t) /\ f.own =>
                f.whole \/ (Body[f.req] = "generator" /\ (f.tries > 1 \/ f.hops > 0))

\* A digest challenge to such a request is answered, also after redirects,
\* unless reading it or sending the answer fails: the counter of refusals is
\* there, and is never left over from an earlier request.  handle_401 raises
\* for a body only if that body cannot seek or a redirect has dropped it, so
\* never on account of another request's; and it finds no header only where
\* the challenge to the thread asks for what is not implemented.
OwnChallengeAnswered ==
    \A t \in Threads :
        LET end == result[t]
        IN  end.own =>
                /\ end.how \notin {"unanswered", "NoThreadState", "NoCount"}
                /\ end.how = "NoBody" => end.hops > 0
                /\ end.how = "NoSeek" => Body[end.req] = "tape"
                /\ end.how = "NoHeader" /\ Idle(t) =>
                       local[t].chal.unknown # "nothing"

\* However often the server refuses, a call ends.
CallsEnd == \A t \in Threads : ~Idle(t) ~> Idle(t)

\* One auth object serves all threads, whichever of them prepared a request.
AnyThreadMaySend ==
    \A t \in Threads : result[t].how # "NoThreadState"
=============================================================================
