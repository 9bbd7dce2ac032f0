------------------------------ MODULE Envelope ------------------------------
(***************************************************************************)
(* The plaintext of a ratchet message, src/src/envelope.rs, between        *)
(* clients of different versions: one that sent bare text, one whose       *)
(* envelopes lack what was added since, this one, and a later one that     *)
(* adds fields and types.                                                  *)
(*                                                                         *)
(* A JSON object is the function from its keys to its values.  All other   *)
(* plaintexts are atoms; so is a value of a type that its field does not   *)
(* take (Wrong).                                                           *)
(***************************************************************************)
EXTENDS Functions, TLC

CONSTANTS
    Texts,  \* text that is no JSON object
    Wrong,  \* a value of the wrong type
    None,   \* Option::None; nothing yet
    Empty   \* the empty string

VARIABLES
    meant,  \* what the sender wants to be read
    wire,   \* the plaintext
    got     \* the Envelope the receiver decoded, or None

vars == <<meant, wire, got>>

---------------------------------------------------------------------------
(* The format.                                                             *)

\* Fields that an envelope of each type must have, and those with a default.
\* These are the ones that are left out when they have it.
Required == [text |-> {"body"}, grp |-> {"gid", "ep", "body"}, roster |-> {"roster"},
             file |-> {"file"}, call |-> {"call"}]
Defaults == [text |-> "id" :> Empty, grp |-> <<>>, roster |-> <<>>,
             file |-> ("gid" :> None @@ "body" :> None), call |-> <<>>]
MemberDefaults == "id_sig" :> Empty

Types == DOMAIN Required
Fields(ty) == {"ty"} \cup Required[ty] \cup DOMAIN Defaults[ty]

Text(body) == [ty |-> "text", body |-> body, id |-> Empty]

encode_envelope(e) ==
    Restrict(e, {f \in DOMAIN e : f \in DOMAIN Defaults[e.ty] => e[f] # Defaults[e.ty][f]})

\* serde_json::from_value: a roster's member (there is one here) gets its own
\* default, keys that are not known are dropped.
from_value(val) ==
    LET Value(f) == IF f \notin DOMAIN val THEN Defaults[val.ty][f]
                    ELSE IF f = "roster" THEN val[f] @@ MemberDefaults
                    ELSE val[f]
    IN  [f \in Fields(val.ty) |-> Value(f)]

\* Mutant: no field may be left out (no serde default).
NoDefaults(val) ==
    /\ Fields(val.ty) \subseteq DOMAIN val
    /\ \A f \in Fields(val.ty) :
          /\ val[f] # Wrong
          /\ val[f] = None => f \in DOMAIN Defaults[val.ty] /\ Defaults[val.ty][f] = None

\* null is a value for Option fields only.
Parses(val) ==
    /\ Required[val.ty] \subseteq DOMAIN val
    /\ \A f \in Fields(val.ty) \cap DOMAIN val :
          /\ val[f] # Wrong
          /\ val[f] = None => f \in DOMAIN Defaults[val.ty] /\ Defaults[val.ty][f] = None

IsEnvelope(raw) ==
    IF raw \in Texts \/ "ty" \notin DOMAIN raw THEN FALSE ELSE raw.ty \in Types /\ Parses(raw)

decode_envelope(raw) == IF IsEnvelope(raw) THEN from_value(raw) ELSE Text(raw)

---------------------------------------------------------------------------
(* Clients.                                                                *)

\* What users write: plain text, and text that is a JSON object, one of them an
\* envelope in its own right.
Written ==
    Texts \cup {"call" :> Empty, [ty |-> "other"], [ty |-> "call", call |-> Empty],
                [ty |-> "grp", gid |-> "g", ep |-> Wrong, body |-> Empty]}

Rosters == {[gid |-> "g", id_sig |-> sig] : sig \in {"sig", Empty}}

Envelopes ==
         [ty : {"text"}, body : Written, id : {"id", Empty}]
    \cup [ty : {"grp"}, gid : {"g"}, ep : {0, 1}, body : Written]
    \cup [ty : {"roster"}, roster : Rosters]
    \cup [ty : {"file"}, file : {"file"}, gid : {"g", None}, body : Written \cup {None}]
    \cup [ty : {"call"}, call : Written]

Init ==
    /\ meant = None
    /\ wire = None
    /\ got = None

Put(e, w) ==
    /\ wire = None
    /\ meant' = e
    /\ wire' = w
    /\ UNCHANGED got

\* This version.
Send(e) == Put(e, encode_envelope(e))

\* Before envelopes.  What looks like one is left out: it cannot be told from one.
SendBare(text) == ~IsEnvelope(text) /\ Put(Text(text), text)

\* Before texts had ids and members signed their keys (roster v1).
SendOlder(e) ==
    /\ e.ty = "text" => e.id = Empty
    /\ e.ty = "roster" => e.roster.id_sig = Empty
    /\ Put(e, IF e.ty = "roster" THEN [e EXCEPT !.roster = "gid" :> "g"] ELSE encode_envelope(e))

\* Later versions: a field more, null for what is left out, a type more.
SendLater(e) ==
    \/ Put(e, encode_envelope(e) @@ "new" :> Empty)
    \/ e.ty = "file" /\ Put(e, e)
    \/ LET w == [ty |-> "other", body |-> e] IN Put(Text(w), w)

Receive ==
    /\ wire # None
    /\ got = None
    /\ got' = decode_envelope(wire)
    /\ UNCHANGED <<meant, wire>>

Next ==
    \/ \E e \in Envelopes : Send(e) \/ SendOlder(e) \/ SendLater(e)
    \/ \E text \in Written : SendBare(text)
    \/ Receive

Spec == Init /\ [][Next]_vars

---------------------------------------------------------------------------
(* Properties.                                                             *)

HasUnknownField == IsEnvelope(wire) /\ ~(DOMAIN wire \subseteq Fields(wire.ty))

\* Whatever the sender's version, the receiver reads what was meant: nothing is
\* taken from inside a text, a roster without its members' signatures is still
\* a roster (and fails validate_roster) rather than text, and a type this
\* version does not know is shown as text.  Fields it does not know are left to
\* UnknownFieldsRejected.
ReadsWhatWasMeant == got # None /\ ~HasUnknownField => got = meant

\* What the README says of the wire formats, the envelope among them: unknown
\* fields are rejected, which decode_envelope does by taking the whole for text.
UnknownFieldsRejected == got # None /\ HasUnknownField => got = Text(wire)
============================================================================
