--------------------------- MODULE MCWebsocketAuth ---------------------------
(***************************************************************************)
(* Instances of WebsocketAuth for TLC.                                     *)
(***************************************************************************)
EXTENDS WebsocketAuth

CONSTANT Wrong   \* a part that is in no token

MCParts == SessionIds \cup Prefixes \cup {"ctts.v1", NotAscii, Wrong}

\* One subprotocol each of every kind.
Offers ==
  {<<>>, <<"ctts.v1">>, <<"token.">>, <<"token.", Wrong>>, <<NotAscii>>}
  \cup UNION {{<<s>>, <<"ctts-token.", s>>, <<"bearer.", s>>, <<"token.", "bearer.", s>>} :
                s \in SessionIds}

MCHeaders == {<<>>} \cup {<<a>> : a \in Offers} \cup {<<a, b>> : a, b \in Offers}

Strings ==
  {<<Wrong>>, <<NotAscii>>, <<>>, NoString}
  \cup UNION {{<<s>>, <<"token.", s>>} : s \in SessionIds}

MCMessages == {Json(t, n) : t, n \in Strings} \cup OtherMessages

=============================================================================
