------------------------------ MODULE AffinityKeys ------------------------------
(***************************************************************************)
(* The affinity keys of a call: where the interceptors put its messages,   *)
(* gcp_interceptor.go, and how Pick and its callback find the keys in      *)
(* them, gcp_picker.go.  A message is a Go value as reflection shows it.   *)
(***************************************************************************)
EXTENDS Naturals, Sequences, SequencesExt

CONSTANTS Messages,  \* the messages that requests and replies may be
          Locators,  \* the affinity_key of a method: the names of a field path
          Title,     \* strings.Title of every name
          Bound      \* the sets of keys that earlier calls may have bound

Through == {"unary", "stream", "nothing"}
Command == {"BOUND", "BIND", "UNBIND"}

Nil == [kind |-> "invalid"]
Text(k) == [kind |-> "string", key |-> k]
Struct(f) == [kind |-> "struct", fields |-> f]
PointerTo(v) == [kind |-> "pointer", elem |-> v]
Slice(s) == [kind |-> "slice", elems |-> s]

VARIABLES
    call,  \* the call: its method's configuration, its messages and where it is
    bound  \* the keys of gb.affinityMap

vars == <<call, bound>>

NoKey == ""

Init ==
    /\ \E t \in Through, c \in Command, l \in Locators, m \in Messages :
         call = [at |-> "new", key |-> NoKey, through |-> t, cmd |-> c, locator |-> l,
                 req |-> m, reply |-> m]
    /\ bound \in Bound

-----------------------------------------------------------------------------
(***************************************************************************)
(* keysFromMessage                                                         *)
(***************************************************************************)

Keys(s) == [err |-> FALSE, keys |-> s]
Error == [err |-> TRUE, keys |-> <<>>]

\* One level of indirection is followed, so the pointer in an interface is not.
Elem(v) == IF v.kind \in {"pointer", "interface"} THEN v.elem ELSE v

FieldByName(v, name) == IF name \in DOMAIN v.fields THEN v.fields[name] ELSE Nil

\* Mutant: only the first of several keys is taken.
Joined_first(results) == IF results = <<>> THEN Keys(<<>>) ELSE results[1]

\* The keys of all elements in order, or the error of one of them.
Joined(results) ==
    IF \E i \in DOMAIN results : results[i].err THEN Error
    ELSE Keys(FlattenSeq([i \in DOMAIN results |-> results[i].keys]))

RECURSIVE keysFromMessage(_, _)
keysFromMessage(val, path) ==
    LET v == Elem(val)
        field == FieldByName(v, Title[Head(path)])
    IN  IF path = <<>> THEN (IF v.kind = "string" THEN Keys(<<v.key>>) ELSE Error)
        ELSE IF v.kind # "struct" THEN Error
        ELSE IF field.kind # "slice" THEN keysFromMessage(field, Tail(path))
        ELSE Joined([i \in DOMAIN field.elems |-> keysFromMessage(field.elems[i], Tail(path))])

-----------------------------------------------------------------------------
\* The interceptors of both kinds leave the request, one of them the reply.
HasContext == call.through # "nothing"
ReplyMsg == IF call.through = "unary" THEN call.reply ELSE Nil

\* The beginning of Pick: an error fails the call, a list without a key panics.
Pick ==
    LET found == keysFromMessage(call.req, call.locator)
    IN  /\ call.at = "new"
        /\ call' = IF ~HasContext \/ call.cmd = "BIND" THEN [call EXCEPT !.at = "picked"]
                   ELSE IF found.err THEN [call EXCEPT !.at = "failed"]
                   ELSE IF found.keys = <<>> THEN [call EXCEPT !.at = "panicked"]
                   ELSE [call EXCEPT !.at = "picked", !.key = Head(found.keys)]
        /\ UNCHANGED bound

\* The RPC fails, and the callback returns before it looks at keys.
Fail ==
    /\ call.at = "picked"
    /\ call' = [call EXCEPT !.at = "failed"]
    /\ UNCHANGED bound

\* The end of the callback: a reply in which no keys are found binds nothing.
Done ==
    /\ call.at = "picked"
    /\ call' = [call EXCEPT !.at = IF call.cmd = "BIND" /\ ~HasContext THEN "panicked" ELSE "ended"]
    /\ bound' = CASE call.cmd = "BIND" /\ HasContext ->
                        bound \cup ToSet(keysFromMessage(ReplyMsg, call.locator).keys)
                   [] call.cmd = "UNBIND" -> bound \ {call.key}
                   [] OTHER -> bound

Next == Pick \/ Fail \/ Done

Spec == Init /\ [][Next]_vars

-----------------------------------------------------------------------------
(***************************************************************************)
(* The reference: a path is followed name by name, from all values that    *)
(* the names before lead to, in the order of the message.                  *)
(***************************************************************************)

Led(v, name) ==
    LET s == Elem(v)
        field == IF s.kind = "struct" THEN FieldByName(s, Title[name]) ELSE Nil
    IN  IF field.kind = "slice" THEN field.elems ELSE <<field>>

Reached(m, path) ==
    FoldLeft(LAMBDA vs, name : FlattenSeq([i \in DOMAIN vs |-> Led(vs[i], name)]), <<m>>, path)

\* What the configured path leads to in a message: nothing, if not only keys.
KeysIn(m) ==
    LET vs == Reached(m, call.locator)
    IN  IF \A i \in DOMAIN vs : Elem(vs[i]).kind = "string"
        THEN [i \in DOMAIN vs |-> Elem(vs[i]).key] ELSE <<>>

\* A call is for the first key its request names; a BIND that succeeds binds the
\* keys its reply names, all of them and no other, and an UNBIND unbinds its key
\* and no other.  A request whose path leads to no key fails the call, or panics
\* if it leads to an empty list, and so does a BIND without the interceptors.
KeysExact ==
    [][LET begins == call.at = "new"
           ends == call.at = "picked" /\ call'.at = "ended"
           asks == HasContext /\ call.cmd # "BIND"
       IN  /\ begins => call'.key = IF asks /\ KeysIn(call.req) # <<>> THEN KeysIn(call.req)[1] ELSE NoKey
           /\ begins => (call'.at = "picked" <=> (asks => KeysIn(call.req) # <<>>))
           /\ begins => (call'.at = "panicked" <=> asks /\ Reached(call.req, call.locator) = <<>>)
           /\ bound' = IF ends /\ call.cmd = "BIND" THEN bound \cup ToSet(KeysIn(ReplyMsg))
                       ELSE IF ends /\ call.cmd = "UNBIND" THEN bound \ {call.key} ELSE bound
           /\ ~begins => (call'.at = "panicked" => call.cmd = "BIND" /\ ~HasContext)]_vars

(***************************************************************************)
(* What the comments say, and the code does not do.                        *)
(***************************************************************************)

\* grpc_gcp.proto:113-116: a BIND method binds the key in its response, also when
\* it is a stream.
StreamsBind ==
    [][call.at = "picked" /\ call'.at = "ended" /\ call.cmd = "BIND" /\ call.through = "stream"
         => ToSet(KeysIn(call.reply)) \subseteq bound']_vars

\* grpc_gcp.proto:118-121: an UNBIND method removes the affinity, as BIND made it:
\* of all keys.
UnbindsAll ==
    [][call.at = "picked" /\ call'.at = "ended" /\ call.cmd = "UNBIND" /\ HasContext
         => ToSet(KeysIn(call.req)) \cap bound' = {}]_vars
=============================================================================
