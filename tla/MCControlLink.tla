--------------------------- MODULE MCControlLink ---------------------------
(***************************************************************************)
(* Instances of ControlLink for TLC.                                       *)
(***************************************************************************)
EXTENDS ControlLink

Command(name) == Parser!Object(name, Absent, Absent, Parser!NoMembers)

SetProfile(p) == Parser!Object("set_profile", Absent, p, Parser!NoMembers)

\* The commands that change the session, and a message that is not understood.
Several ==
  {Command(name) : name \in {"pause", "resume", "stop"}}
  \cup {SetProfile(p) : p \in Profiles} \cup {Parser!Other("text")}

\* Every object with these members, and everything that is no object.
Forms ==
  LET members == {"pause", "set_profile", "unheard-of", Absent, Null, Number, Collection}
      profiles == Profiles \cup {"unheard-of", Absent, Null}
  IN {Parser!Object(c, t, p, [command |-> n, profile |-> q]) :
        c \in members, t \in members, p \in profiles, n \in members, q \in profiles}
     \cup {Parser!Other(kind) : kind \in Parser!OtherKinds}

\* Bounds: one message, or two of the reading clients and one of the others.
One    == [c \in Links |-> 1]
Uneven == [c \in Links |-> IF c \in Readers THEN 2 ELSE 1]

=============================================================================
