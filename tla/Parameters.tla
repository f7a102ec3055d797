----------------------------- MODULE Parameters -----------------------------
(***************************************************************************)
(* How execute()'s parameters become JSON and back (_params.py).  A value  *)
(* is its type and its text.  Parameters are None, a list, a dict or one   *)
(* value: a kind, and the values by position or by the text of their key.  *)
(***************************************************************************)
EXTENDS Integers, SequencesExt

CONSTANT Subclasses     \* pairs of a class and one it inherits from

(* What JSON has a form for.                                               *)
NativeTypes == {"null", "bool", "int", "float", "str"}

(* A handler writes the values of its class under a tag.                   *)
Handler(class, tag) == [class |-> class, tag |-> tag]

(* A mutation: datetimes are dates, too.                                   *)
DatesFirst == <<Handler("date", "date"), Handler("datetime", "datetime"),
                Handler("bytes", "bytes"), Handler("UUID", "UUID")>>

(* Of the six, time and Decimal are handled like UUID.                     *)
_BUILTIN_SERIALISERS ==
    <<Handler("datetime", "datetime"), Handler("date", "date"),
      Handler("bytes", "bytes"), Handler("UUID", "UUID")>>

Classes(registry) == {h.class : h \in ToSet(registry)}

(* Of the six, only datetime inherits from another, and none is native.    *)
ASSUME SubclassesAssumption ==
    \A class \in Classes(_BUILTIN_SERIALISERS) :
    \A super \in Classes(_BUILTIN_SERIALISERS) \union NativeTypes :
        <<class, super>> \in Subclasses => class = "datetime" /\ super = "date"

(* The fixture's value: None, or a dict, which NO_DEFAULT_SERIALISERS is.  *)
NoneGiven == [given |-> FALSE, only |-> FALSE, handlers |-> <<>>]
Given(handlers, only) == [given |-> TRUE, only |-> only, handlers |-> handlers]

(* {**builtins, **user}: a class that is there keeps its place.            *)
Merged(builtins, user) ==
    [i \in DOMAIN builtins |->
       IF builtins[i].class \in Classes(user)
       THEN CHOOSE h \in ToSet(user) : h.class = builtins[i].class
       ELSE builtins[i]]
      \o SelectSeq(user, LAMBDA h : h.class \notin Classes(builtins))

build_registry(user) ==
    IF ~user.given THEN _BUILTIN_SERIALISERS
    ELSE IF user.only \/ user.handlers = <<>> THEN user.handlers
         ELSE Merged(_BUILTIN_SERIALISERS, user.handlers)

(* isinstance.                                                             *)
IsInstance(v, class) == v.type = class \/ <<v.type, class>> \in Subclasses

Accepting(v, registry) == {i \in DOMAIN registry : IsInstance(v, registry[i].class)}

(* The first in the registry that accepts the value.                       *)
HandlerOf(v, registry) ==
    registry[CHOOSE i \in Accepting(v, registry) :
               \A j \in Accepting(v, registry) : i <= j]

(* Instances of the native types and of subclasses of these (an IntEnum,   *)
(* say) pass as they are, whatever the registry has for them; JSON writes  *)
(* the latter as it writes the former.                                     *)
IsNative(v) == \E class \in NativeTypes : IsInstance(v, class)

NativeClass(v) ==
    IF v.type \in NativeTypes THEN v.type
    ELSE CHOOSE class \in NativeTypes : IsInstance(v, class)

(* Otherwise _serialise_value raises a TypeError.                          *)
CanBeSerialised(v, registry) == IsNative(v) \/ Accepting(v, registry) # {}

Serialisable(p, registry) == \A k \in DOMAIN p.items : CanBeSerialised(p.items[k], registry)

_serialise_value(v, registry) ==
    IF IsNative(v) THEN [type |-> NativeClass(v), text |-> v.text]
    ELSE [type |-> "object", tag |-> HandlerOf(v, registry).tag, text |-> v.text]

(* What is stored of it, unscrubbed, and what stands for it in a key.      *)
serialise_params(p, registry) ==
    [p EXCEPT !.items = [k \in DOMAIN @ |-> _serialise_value(@[k], registry)]]

(* Only the tags of the built-in handlers are known.                       *)
_deserialise_value(v) ==
    IF v.type = "object" /\ v.tag \in {h.tag : h \in ToSet(_BUILTIN_SERIALISERS)}
    THEN [type |-> v.tag, text |-> v.text]
    ELSE v

deserialise_params(raw) ==
    [raw EXCEPT !.items = [k \in DOMAIN @ |-> _deserialise_value(@[k])]]
=============================================================================
