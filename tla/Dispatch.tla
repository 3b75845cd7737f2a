------------------------------ MODULE Dispatch -------------------------------
(***************************************************************************)
(* Calls from the bus (gdbus_method_call, gdbus_get_property,              *)
(* gdbus_set_property) and signals to it (emit_signal): what is converted, *)
(* what runs, and what is answered, while other threads change what nodes  *)
(* manage.                                                                 *)
(*                                                                         *)
(* A callback holds server_lock from its first look into the tables until  *)
(* it has answered, and with it during the client's handler, which may     *)
(* itself call into the library (the lock is recursive).  GDBus checks the *)
(* arguments of a call before it dispatches it; nothing here relies on     *)
(* that, a call may have any arguments, also none that the library knows.  *)
(*                                                                         *)
(* Whether the interface a call names is in the table of the node and      *)
(* locks is Registry's subject, and any outcome here.  The interfaces at   *)
(* all paths have copies of the same property objects.                     *)
(***************************************************************************)
EXTENDS Managed, Variants

CONSTANTS
  MainThread,                   \* runs the main loop
  Method, Args, Result,         \* functions: the types of the arguments and of
                                \* what is returned, each as one tuple type,
                                \* empty for void
  Prop, PropType,               \* properties
  Readable, Writeable, Const,   \* their permissions; property<const T>
  First,                        \* initial value of each
  Signal, SignalArgs,           \* signals: the tuple type of the arguments
  Results,                      \* what each function may return, ...
  Emitted,                      \* ... the [type, val] a program emits,
  SentArgs, SentValues,         \* and the GVariants that the bus sends
  NoMember                      \* a name the interface does not have

Nullable == Object \cup {NoObject}

ASSUME MainThreadAssumption == MainThread \in Thread
ASSUME MissingAssumption == Missing \notin Path \cup Nullable
ASSUME NoMemberAssumption == NoMember \notin Method \cup Prop \cup Signal

\* A function with a shared_ptr as an argument does not compile.
ASSUME MethodAssumption ==
  \A m \in Method :
    /\ IsType(Args[m])
    /\ \A tp \in DOMAIN Args[m] : Args[m][tp].k # "obj"
    /\ IsType(Result[m]) /\ Result[m][<<>>].k = "tup"
    /\ \A x \in Results[m] : IsValue(Result[m], x, Nullable)

ASSUME PropAssumption ==
  /\ DOMAIN First = Prop
  /\ Readable \cup Writeable \cup Const \subseteq Prop
  /\ \A m \in Prop : /\ IsType(PropType[m])
                     /\ IsValue(PropType[m], First[m], Nullable)

ASSUME EmittedAssumption ==
  \A e \in Emitted : IsType(e.type) /\ IsValue(e.type, e.val, Nullable)

ASSUME SentAssumption == \A g \in SentArgs \cup SentValues : IsGVariant(g, Path)

VARIABLES
  call,       \* the call the main thread is handling
  value,      \* of the properties
  out         \* the message to the bus, or what comes instead of it

vars == <<managedVars, call, value, out>>

-----------------------------------------------------------------------------
\* What is found for a path, and the path found for an object.
Resolved ==
  [p \in Path |-> IF entry[p] /\ life[p] = "live" /\ managing[p] # NoObject
                    THEN managing[p] ELSE Missing]

PathsOf ==
  [a \in Nullable |->
     IF a = NoObject THEN Missing
     ELSE IF lookup[a] = NoPath THEN Missing ELSE lookup[a]]

Held == objects \cup {NoObject}

\* What a step says to the bus, and of what: `given' is a C++ value of type
\* `type', `body' a GVariant, `replies' how often an invocation was answered.
NoType == [tp \in {<<>>} |-> [k |-> "tup", n |-> 0]]
NoValue == [p \in {<<>>} |-> 0]
NoBody == [type |-> VariantType(NoType),
           val |-> [p \in {<<>>} |-> [code |-> "r", val |-> 0]]]

Message(what, p, m, answer, type, given, body) ==
  [what |-> what, path |-> p, member |-> m, answer |-> answer, type |-> type,
   given |-> given, body |-> body, replies |-> 0]

Reply(n, message) == [message EXCEPT !.replies = n]

Silence == Message("none", NoPath, NoMember, "none", NoType, NoValue, NoBody)

NoCall == [stage |-> "idle", path |-> NoPath, member |-> NoMember,
           args |-> NoValue, sent |-> NoBody]

TypeOK ==
  /\ ManagedTypeOK
  /\ call.stage \in {"idle", "handler"}
  /\ call.stage = "handler" => /\ call.path \in Path /\ call.member \in Method
                               /\ life[call.path] = "live"
  /\ out.replies \in 0 .. 2
  /\ DOMAIN value = Prop
  /\ \A m \in Prop : IsValue(PropType[m], value[m], Nullable)
  /\ out.what \in {"none", "refused", "method", "threw", "get", "set",
                   "signal"}

Init ==
  /\ ManagedInit
  /\ call = NoCall
  /\ value = First
  /\ out = Silence

-----------------------------------------------------------------------------
(***************************************************************************)
(* Exceptions, and what each catch clause makes of them.                   *)
(***************************************************************************)
Caught(e, clauses) == IF e \in DOMAIN clauses THEN clauses[e] ELSE "uncaught"

\* gdbus_method_call: around the conversion of the arguments ...
ArgsCatch ==
  [invalid_argument |-> "INVALID_SIGNATURE", out_of_range |-> "UNKNOWN_OBJECT"]

\* ... and around the function and the conversion of its result.
CallCatch ==
  [bad_variant_access |-> "INVALID_SIGNATURE",
   invalid_argument |-> "INVALID_ARGS",
   out_of_range |-> "FAILED", runtime_error |-> "FAILED"]

GetCatch ==
  [out_of_range |-> "UNKNOWN_PROPERTY",
   permission_denied |-> "FAILED", runtime_error |-> "FAILED"]

SetCatch ==
  [bad_variant_access |-> "INVALID_SIGNATURE",
   permission_denied |-> "PROPERTY_READ_ONLY",
   invalid_argument |-> "INVALID_ARGS", out_of_range |-> "FAILED"]

PropertyCatch == [out_of_range |-> "UNKNOWN_PROPERTY"]

\* to_gvariant of an object without a path.
NoPathThrowsPlainly == "out_of_range"                              \* mutant
NoPathThrows == "runtime_error"

\* What the three callbacks have in common: entry, node, interface.
Missed(p, hit) ==
  IF ~entry[p] \/ life[p] # "live" THEN "UNKNOWN_OBJECT"
  ELSE IF ~hit THEN "UNKNOWN_INTERFACE" ELSE ""

-----------------------------------------------------------------------------
(***************************************************************************)
(* Method calls.                                                           *)
(***************************************************************************)
Idle == call.stage # "handler" /\ pend[MainThread] = Nothing

\* Why a call never reaches its function; "" if it does.
Refusal(p, hit, m, g) ==
  LET missed == Missed(p, hit)
      thrown == FromGThrows(g, Resolved)
  IN IF missed # "" THEN missed
     ELSE IF m = NoMember THEN "UNKNOWN_METHOD"
     ELSE IF thrown # "" THEN Caught(thrown, ArgsCatch)
     ELSE IF ~Fits(Args[m], FromG(g, Resolved))
       THEN Caught("bad_variant_access", CallCatch)
     ELSE ""

RefuseCall(p, hit, m, g) ==
  LET refusal == Refusal(p, hit, m, g) IN
  /\ Idle
  /\ refusal # ""
  /\ out' = Reply(IF refusal = "uncaught" THEN 0 ELSE 1,
                  Message("refused", p, m, refusal, NoType, NoValue, g))
  /\ UNCHANGED <<managedVars, call, value>>

EnterHandler(p, m, g) ==
  /\ Idle
  /\ Refusal(p, TRUE, m, g) = ""
  /\ call' = [stage |-> "handler", path |-> p, member |-> m,
              args |-> FromVariant(FromG(g, Resolved)), sent |-> g]
  /\ UNCHANGED <<managedVars, value, out>>

\* The wrapper of _fn_generator makes a variant_tuple of what the function
\* returns: of nothing, of the one value, or of the parts of a std::tuple.
Response(m, x) == ToVariant(Result[m], x)

\* The answers to a call: nullptr for an empty response, which GDBus takes for
\* an empty tuple, and return; or the converted response; or an error.
Converted(m, response) ==
  IF ToGFails(response, PathsOf)
    THEN [answer |-> Caught(NoPathThrows, CallCatch), body |-> NoBody]
    ELSE [answer |-> "value",
          body |-> ToG(response, VariantType(Result[m]), PathsOf)]

Empty(response) == response[<<>>].val = 0

AnswersTwice(m, response) ==                                       \* mutant
  IF Empty(response)
    THEN << [answer |-> "value", body |-> NoBody], Converted(m, response) >>
    ELSE << Converted(m, response) >>

Answers(m, response) ==
  IF Empty(response) THEN << [answer |-> "value", body |-> NoBody] >>
                     ELSE << Converted(m, response) >>

HandlerOver ==
  /\ call.stage = "handler"
  /\ pend[MainThread] = Nothing
  /\ call' = NoCall
  /\ UNCHANGED <<managedVars, value>>

HandlerReturns(x) ==
  LET m == call.member
      answers == Answers(m, Response(m, x))
      last == answers[Len(answers)]
  IN /\ HandlerOver
     /\ out' = Reply(Len(answers),
                     Message("method", call.path, m, last.answer,
                             Result[m], x, last.body))

HandlerThrows(e) ==
  /\ HandlerOver
  /\ out' = Reply(IF Caught(e, CallCatch) = "uncaught" THEN 0 ELSE 1,
                  Message("threw", call.path, call.member, Caught(e, CallCatch),
                          NoType, NoValue, NoBody))

-----------------------------------------------------------------------------
(***************************************************************************)
(* Properties.                                                             *)
(***************************************************************************)
GetProperty(p, hit, m) ==
  LET missed == Missed(p, hit)
      type == PropType[m]
      v == ToVariant(type, value[m])
      Answer(a, t, x, g) == out' = Message("get", p, m, a, t, x, g)
      Error(e) == Answer(e, NoType, NoValue, NoBody)
  IN /\ Idle
     /\ IF missed # "" THEN Error(missed)
        ELSE IF m = NoMember THEN Error(Caught("out_of_range", GetCatch))
        ELSE IF m \notin Readable
          THEN Error(Caught("permission_denied", GetCatch))
        ELSE IF ToGFails(v, PathsOf)
          THEN Answer(Caught(NoPathThrows, GetCatch), type, value[m], NoBody)
        ELSE Answer("value", type, value[m],
                    ToG(v, VariantType(type), PathsOf))
     /\ UNCHANGED <<managedVars, call, value>>

\* What set_variant(from_gvariant(value)) throws; "" if nothing.
SetThrowsUnguarded(m, g) ==                                        \* mutant
  IF FromGThrows(g, Resolved) # "" THEN FromGThrows(g, Resolved)
  ELSE IF m \notin Const /\ ~Fits(PropType[m], FromG(g, Resolved))
    THEN "bad_variant_access"
  ELSE ""

SetThrows(m, g) ==
  IF FromGThrows(g, Resolved) # "" THEN FromGThrows(g, Resolved)
  ELSE IF m \notin Writeable THEN "permission_denied"
  ELSE IF m \notin Const /\ ~Fits(PropType[m], FromG(g, Resolved))
    THEN "bad_variant_access"
  ELSE ""

\* _set of a property<const T> returns false, which is all that GDBus gets.
SetReturns(m) == IF m \in Const THEN "false" ELSE "true"

SetProperty(p, hit, m, g) ==
  LET missed == Missed(p, hit)
      Answer(a) == out' = Message("set", p, m, a, NoType, NoValue, g)
  IN /\ Idle
     /\ IF missed # "" THEN Answer(missed) /\ UNCHANGED value
        ELSE IF m = NoMember
          THEN Answer(Caught("out_of_range", PropertyCatch)) /\ UNCHANGED value
        ELSE IF SetThrows(m, g) # ""
          THEN Answer(Caught(SetThrows(m, g), SetCatch)) /\ UNCHANGED value
        ELSE /\ Answer(SetReturns(m))
             /\ value' = IF m \in Const THEN value
                         ELSE [value EXCEPT ![m] =
                                 FromVariant(FromG(g, Resolved))]
     /\ UNCHANGED <<managedVars, call>>

-----------------------------------------------------------------------------
(***************************************************************************)
(* Signals: interface::emit_signal, node::emit_signal, server::emit_signal.*)
(***************************************************************************)
ServerFree(t) == call.stage = "handler" => t = MainThread

EmittableUntyped(s, type) ==                                       \* mutant
  s # NoMember /\ type[<<>>].n = SignalArgs[s][<<>>].n

\* The number and the types of the arguments, before anything is converted.
Emittable(s, type) ==
  /\ s # NoMember
  /\ type[<<>>].n = SignalArgs[s][<<>>].n
  /\ VariantType(type) = VariantType(SignalArgs[s])

Emit(t, p, s, type, x) ==
  LET v == ToVariant(type, x)
      Said(a, g) == out' = Message("signal", p, s, a, type, x, g)
  IN /\ ServerFree(t)
     /\ life[p] = "live" /\ attached[p]
     /\ IF ~Emittable(s, type) \/ ToGFails(v, PathsOf)
        THEN Said("thrown", NoBody)
        ELSE Said("value", ToG(v, VariantType(type), PathsOf))
     /\ UNCHANGED <<managedVars, call, value>>

-----------------------------------------------------------------------------
\* Objects that properties refer to; and the node of a call, to which the
\* callback has a reference.
Kept == UNION {ObjectsIn(PropType[m], value[m]) : m \in Prop} \ {NoObject}

ManagedStep(t) ==
  /\ Unlocked(t) \/ (ServerFree(t) /\ Locked(t))
  /\ Kept \subseteq objects'
  /\ call.stage = "handler" => life'[call.path] = "live"
  /\ UNCHANGED <<call, value, out>>

FromBus(p) ==
  \/ \E hit \in BOOLEAN, m \in Method \cup {NoMember}, g \in SentArgs :
       RefuseCall(p, hit, m, g) \/ (hit /\ EnterHandler(p, m, g))
  \/ \E hit \in BOOLEAN, m \in Prop \cup {NoMember} :
       \/ GetProperty(p, hit, m)
       \/ \E g \in SentValues : SetProperty(p, hit, m, g)

Handler ==
  \/ /\ call.stage = "handler"
     /\ \E x \in Results[call.member] :
          /\ ObjectsIn(Result[call.member], x) \subseteq Held
          /\ HandlerReturns(x)
  \/ \E e \in DOMAIN CallCatch : HandlerThrows(e)

Emission ==
  \E t \in Thread, p \in Path, s \in Signal \cup {NoMember}, e \in Emitted :
    /\ ObjectsIn(e.type, e.val) \subseteq Held
    /\ Emit(t, p, s, e.type, e.val)

\* GDBus takes the message.  Nothing else happens before: the properties see a
\* message in the state that it was made in.
Taken ==
  /\ out # Silence
  /\ out' = Silence
  /\ UNCHANGED <<managedVars, call, value>>

Next ==
  \/ Taken
  \/ /\ out = Silence
     /\ \/ \E t \in Thread : ManagedStep(t)
        \/ \E p \in Path : FromBus(p)
        \/ Handler
        \/ Emission

Spec == Init /\ [][Next]_vars

-----------------------------------------------------------------------------
(***************************************************************************)
(* Properties.                                                             *)
(***************************************************************************)

\* A method call is answered exactly once, when it is refused or its handler is
\* over and not before, whatever the handler returns or throws; and no
\* exception leaves a callback, whose callers are C functions.
OneReply ==
  /\ out.answer # "uncaught"
  /\ out.replies = IF out.what \in {"refused", "method", "threw"} THEN 1 ELSE 0

\* A call with arguments of the types that the introspection data advertises
\* reaches its function; it is refused only if its path or its interface is not
\* there.
AdvertisedAccepted ==
  out.what = "refused" /\ out.member # NoMember
    /\ out.body.type = VariantType(Args[out.member])
  => \/ out.answer = "UNKNOWN_INTERFACE"
     \/ out.answer = "UNKNOWN_OBJECT" /\ Missed(out.path, TRUE) # ""

\* A function runs with the values that were sent: nothing is cut off, left
\* out, or read as another type.
HandlerGetsSent ==
  call.stage = "handler" =>
    Denotes(Args[call.member], call.args, call.sent,
            {<<p, Resolved[p]>> : p \in Path})

\* A path and an object that the path may stand for: if a node manages the
\* object, and no other one, its path and no other.
Means ==
  {pa \in Path \X Object : \A p \in Path :
     Settled(p) /\ managing[p] = pa[2] => p = pa[1]}

\* Results, properties and signals arrive as the types that were advertised and
\* as the values that were given, and are sent at all if every object in them
\* is one that a node manages.
SendsFaithful ==
  out.what \in {"method", "get", "signal"} =>
    IF out.answer = "value"
      THEN /\ out.body.type = VariantType(out.type)
           /\ Denotes(out.type, out.given, out.body, Means)
      ELSE \/ out.what = "get" /\ out.type = NoType
           \/ out.what = "signal" /\ ~Emittable(out.member, out.type)
           \/ \E a \in ObjectsIn(out.type, out.given) :
                ~\E p \in Path : Settled(p) /\ managing[p] = a

\* The names of errors are true, although one exception class stands for
\* several of them: only what does not exist is called unknown, and only a
\* property without the permission read only.
ErrorsTell ==
  /\ out.answer \in {"UNKNOWN_METHOD", "UNKNOWN_PROPERTY"} =>
       out.member = NoMember
  /\ out.answer = "UNKNOWN_OBJECT" =>
       Missed(out.path, TRUE) # "" \/ FromGThrows(out.body, Resolved) # ""
  /\ out.answer = "PROPERTY_READ_ONLY" => out.member \notin Writeable

\* What a step does to properties, and what the bus is told of it.
SetExactly ==
  /\ value' # value => out'.what = "set" /\ out'.answer = "true"
  /\ \A m \in Prop : value'[m] # value[m] => out'.member = m
  /\ out'.what = "set" /\ out'.answer = "true" =>
       /\ out'.member \in Writeable
       /\ Denotes(PropType[out'.member], value'[out'.member], out'.body,
                  {<<p, Resolved[p]>> : p \in Path})
  /\ out'.what = "set" /\ out'.answer = "false" =>
       out'.member \in Const \cap Writeable
  /\ /\ out'.what = "set" /\ out'.member \in Writeable \ Const
     /\ out'.body.type = VariantType(PropType[out'.member])
     /\ Missed(out'.path, TRUE) = ""
     => \/ out'.answer \in {"true", "UNKNOWN_INTERFACE"}
        \/ FromGThrows(out'.body, Resolved) # ""

\* The bus changes a property only by a set that it is told has succeeded, only
\* if the property may be written, and only to the value it sent.  A set of the
\* advertised type does succeed, and one that fails says why, except that of
\* a writeable property<const T>: GDBus gets FALSE and no error.
SetExact == [][SetExactly]_vars

\* What is emitted as a signal has the types the introspection data has for it.
SignalsAdvertised ==
  out.what = "signal" /\ out.answer = "value" =>
    /\ out.member # NoMember
    /\ out.body.type = VariantType(SignalArgs[out.member])
=============================================================================
