--------------------------- MODULE ControlMessage ---------------------------
(***************************************************************************)
(* _parse_control_command of backend/app/main.py: what the server makes of *)
(* one message of a control client.  A message is "bytes", or text that is *)
(* no JSON, or a JSON value; of a JSON object only four members matter.    *)
(*                                                                         *)
(* A member is a string or one of four things that are no string: not      *)
(* there, null, a number, or a Collection (a list or an object), which     *)
(* Python cannot hash and so cannot look up in a set.                      *)
(***************************************************************************)
EXTENDS Integers

CONSTANTS
  Profiles,                          \* SchedulerProfile
  Absent, Null, Number, Collection   \* members that are no string

NoString == {Absent, Null, Number, Collection}

ControlCommandName == {"pause", "resume", "stop", "set_profile", "ping"}

NoMembers == [command |-> Absent, profile |-> Absent]

\* A JSON object; payload is itself an object with the two members, or
\* something that is no object and counts as one without members.
Object(command, type, profile, payload) ==
  [kind |-> "object", command |-> command, type |-> type, profile |-> profile,
   payload |-> payload]

OtherKinds == {"bytes", "text", "value"}      \* no text, no JSON, no object
Other(kind) == [kind |-> kind, command |-> Absent, type |-> Absent, profile |-> Absent,
                payload |-> NoMembers]

IsNone(member) == member \in {Absent, Null}

\* The type of a message names its command only if nothing else does first.
CommandValue(m) ==
  IF ~IsNone(m.command) THEN m.command
  ELSE IF m.type \in ControlCommandName THEN m.type ELSE m.payload.command

\* payload.get("profile", ...): a null of the message hides the nested one.
ProfileValue(m) == IF m.profile # Absent THEN m.profile ELSE m.payload.profile

\* Looking the type up in the set of command names raises a TypeError, which
\* is caught together with that of json.loads.
Unhashable(m) == IsNone(m.command) /\ m.type = Collection

\* The checks in their order, with the code a message that fails is answered.
Checks(m) ==
  LET profile == CommandValue(m) = "set_profile" IN
    <<[code |-> "unsupported_control_message", holds |-> m.kind # "bytes"],
      [code |-> "invalid_control_json",        holds |-> m.kind # "text"],
      [code |-> "invalid_control_message",     holds |-> m.kind # "value"],
      [code |-> "invalid_control_json",        holds |-> ~Unhashable(m)],
      [code |-> "missing_control_command",     holds |-> CommandValue(m) \notin NoString],
      [code |-> "unsupported_control_command", holds |-> CommandValue(m) \in ControlCommandName],
      [code |-> "missing_control_profile", holds |-> profile => ProfileValue(m) \notin NoString],
      [code |-> "invalid_control_profile", holds |-> profile => ProfileValue(m) \in Profiles]>>

Understood(m) == \A i \in DOMAIN Checks(m) : Checks(m)[i].holds

ParseError(m) ==
  Checks(m)[CHOOSE i \in DOMAIN Checks(m) :
              /\ ~Checks(m)[i].holds
              /\ \A j \in 1..(i - 1) : Checks(m)[j].holds].code

=============================================================================
