--------------------------- MODULE WebsocketAuth ---------------------------
(***************************************************************************)
(* How a client of any of the three websockets is admitted                 *)
(* (_authenticate_websocket of backend/app/main.py): by a token among the  *)
(* subprotocols its request offers, or else by one in its first message,   *)
(* for which the server waits a limited time, while the sessions are used  *)
(* over HTTP and may expire.                                               *)
(*                                                                         *)
(* A string is the sequence of its parts: <<"token.", T>> is the string    *)
(* "token." followed by T, and <<>> is the empty string.  The token of a   *)
(* session is a single part; clients name only tokens they have been given.*)
(***************************************************************************)
EXTENDS HttpApi, Sequences

CONSTANTS
  Links,       \* websockets
  Parts,       \* what strings are made of
  NotAscii,    \* a part with a character that is not ASCII
  NoString,    \* a JSON value that is no string, or none
  Headers,     \* lists of subprotocols that may be offered
  Messages     \* first messages: of Json and OtherMessages

VARIABLES
  link,        \* link[c]: where the handler of c is suspended
  target       \* target[c]: the session c asks for, "" before it connects

allvars == <<vars, link, target>>

Prefixes == {"ctts-token.", "token.", "bearer."}

\* Tokens are of the base64url alphabet, which has no dot.
ASSUME WebsocketAuthAssumption ==
  /\ SessionIds \subseteq Parts \ (Prefixes \cup {"ctts.v1", NotAscii})
  /\ Headers \subseteq Seq(Seq(Parts))

Json(token, nested) == [kind |-> "json", token |-> token, nested |-> nested]
OtherMessages       == {[kind |-> k] : k \in {"disconnect", "bytes", "no json"}}

AuthInit ==
  /\ Init
  /\ link = [c \in Links |-> "none"] /\ target = [c \in Links |-> ""]

Goes(c, from, to) == link[c] = from /\ link' = [link EXCEPT ![c] = to]

\* The sessions whose tokens are parts of the strings ts.
TokensIn(ts) == UNION {{t[i] : i \in DOMAIN t} : t \in ts} \cap SessionIds

-----------------------------------------------------------------------------
(* authenticate_session of session s with string t.                        *)

\* compare_digest does not take a string that is not ASCII; neither it nor a
\* wrong one is looked at unless the session is live.
Raises(s, t) == s \in DOMAIN Live /\ t # <<>> /\ \E i \in DOMAIN t : t[i] = NotAscii

Admits(s, t) == s \in DOMAIN Live /\ t = <<sessions[s].token>>

Decisive(s, t) == Raises(s, t) \/ Admits(s, t)

\* Mutant of Tried: every attempt counts as activity.
TriedTouching(s, ts) ==
  IF s \in DOMAIN Live /\ ts # {} THEN Stored(Live, s, Touched(sessions[s], clock))
  ELSE IF ts \subseteq {<<>>} THEN sessions ELSE Live

\* The store once the strings ts have been tried; the empty one is not.
Tried(s, ts) ==
  IF \E t \in ts : Admits(s, t) THEN Stored(Live, s, Touched(sessions[s], clock))
  ELSE IF ts \subseteq {<<>>} THEN sessions ELSE Live

-----------------------------------------------------------------------------
(* The handler.                                                            *)

Candidate(offer) == IF Head(offer) \in Prefixes THEN Tail(offer) ELSE offer

\* Mutant of Candidates: only the first subprotocol is looked at.
CandidatesFirst(header) ==
  [i \in {j \in DOMAIN header \cap {1} : header[j] # <<>>} |-> Candidate(header[i])]

\* _subprotocol_token_candidates, by their positions in the header.
Candidates(header) ==
  [i \in {j \in DOMAIN header : header[j] \notin {<<>>, <<"ctts.v1">>}} |->
     Candidate(header[i])]

\* The candidates up to the first that decides, all of them if none does.
Attempted(s, ts) ==
  {ts[i] : i \in {j \in DOMAIN ts : \A k \in DOMAIN ts : k < j => ~Decisive(s, ts[k])}}

Outcome(s, ts, otherwise) ==
  IF \E t \in ts : Admits(s, t) THEN "open"
  ELSE IF \E t \in ts : Raises(s, t) THEN "failed" ELSE otherwise

Presents(c, s, ts, from, otherwise) ==
  /\ TokensIn(ts) \subseteq issued
  /\ Goes(c, from, Outcome(s, ts, otherwise))
  /\ sessions' = Tried(s, ts)
  /\ UNCHANGED <<clock, issued, request, answer, latest, missed>>

\* From the request to the first await that can wait.
Connect(c, s, header) ==
  /\ s \in issued
  /\ Presents(c, s, Attempted(s, Candidates(header)), "none", "waiting")
  /\ target' = [target EXCEPT ![c] = s]

\* _token_from_auth_payload: an empty string does not give way to the nested one.
TokenOf(m) == IF m.token # NoString THEN m.token ELSE m.nested

FirstMessage(c, m) ==
  /\ m.kind = "json"
  /\ Presents(c, target[c], {TokenOf(m)} \ {NoString}, "waiting", "closing")
  /\ UNCHANGED target

NoToken(c, m) ==
  /\ \/ m.kind = "disconnect" /\ Goes(c, "waiting", "ended")
     \/ m.kind \in {"bytes", "no json"} /\ Goes(c, "waiting", "closing")
  /\ UNCHANGED <<vars, target>>

AuthTimeout(c) == Goes(c, "waiting", "closing") /\ UNCHANGED <<vars, target>>

Closed(c) == Goes(c, "closing", "ended") /\ UNCHANGED <<vars, target>>

AuthStep(c) ==
  \/ \E s \in SessionIds, h \in Headers : Connect(c, s, h)
  \/ \E m \in Messages : FirstMessage(c, m) \/ NoToken(c, m)
  \/ AuthTimeout(c) \/ Closed(c)

AuthNext ==
  \/ Next /\ UNCHANGED <<link, target>>
  \/ \E c \in Links : AuthStep(c)

AuthSpec == AuthInit /\ [][AuthNext]_allvars

-----------------------------------------------------------------------------
(* Properties.                                                             *)

Opens(c) == link[c] # "open" /\ link'[c] = "open"

\* A client that is told once that its session is unknown need not ask again:
\* the id is unknown to every later request, and lets in no websocket, not even
\* one that was waiting for its token when the session expired (main.py:121-160,
\* 484-535; sessions.py:127-179, 306-314).
NotFoundIsFinal ==
  [][/\ request'.id \in missed /\ Serve => answer'.status \in {404, 422}
     /\ \A c \in Links : Opens(c) => target'[c] \notin missed]_allvars

\* Whoever is refused has changed nothing: a request that is answered with an
\* error, or a websocket that is not let in, neither keeps a session from
\* expiring nor ends it early (main.py:107-160, 484-535; errors.py:65-93;
\* sessions.py:166-179, 300-320).
RefusalsChangeNothing ==
  [][\/ answer'.status # 200 /\ Serve
     \/ link' # link /\ ~(\E c \in Links : Opens(c))
     => \A s \in DOMAIN sessions :
          IF s \in DOMAIN sessions' THEN sessions'[s] = sessions[s]
          ELSE clock - sessions[s].last_activity_at > StaleAfter]_allvars

\* A request is admitted at once exactly if it offers the token of its session,
\* which is live, bare or behind one prefix, wherever in the list that is and
\* whatever else is offered in plain ASCII (main.py:484-487, 538-556).
OfferedTokenAdmits ==
  [][\A c \in Links : link[c] = "none" /\ link'[c] # "none" =>
       \A h \in Headers :
         /\ Connect(c, target'[c], h)
         /\ \A i \in DOMAIN h : \A j \in DOMAIN h[i] : h[i][j] # NotAscii
         => (link'[c] = "open" <=>
               /\ target'[c] \in DOMAIN Live
               /\ \E i \in DOMAIN h :
                    h[i] \in {<<target'[c]>>} \cup {<<p, target'[c]>> : p \in Prefixes})]_allvars

=============================================================================
