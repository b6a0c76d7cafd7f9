------------------------------ MODULE EntryBuilder ----------------------------
(***************************************************************************)
(* Building an entry: buildEntry() and buildEntryFast() of                 *)
(* src/core/entry.core.ts, the merge of the contexts of                    *)
(* src/core/context.core.ts and the redaction of src/redact/index.redact.ts*)
(*                                                                         *)
(* A value is a tree: a leaf has a kind, an object has children by field.  *)
(* "bearer" is a string with a secret that the message pattern finds,      *)
(* "email" one that only the PII detector finds, "array" any array.        *)
(* "error" is an Error and "serialized" the object serializeError() makes  *)
(* of one: its message, stack and cause may hold anything, and are leaves  *)
(* because no redaction walks them.  The snapshot of a fatal entry and the *)
(* schema version that is stamped are left out of the entry.               *)
(***************************************************************************)
EXTENDS Naturals, Sequences, SequencesExt

CONSTANTS Fields, DeniedFields,   \* names, and those that the denylist matches
          ErrorFields,            \* "error" and "reason"
          PlainKinds,                \* the kinds of values without text: numbers, Booleans
          MaxNesting,             \* bound: no value is nested deeper
          BuildCalls,             \* the logger state and the arguments of the calls
          NoContext,              \* undefined
          NotBuilt                \* null, and no entry yet

VARIABLES buildCall,   \* the call, or NotBuilt
          builtEntry   \* the entry it made

entryVars == <<buildCall, builtEntry>>

Strings == {"text", "censor", "bearer", "email"}
Kinds == Strings \cup PlainKinds \cup {"array", "object", "error", "serialized"}

NoKids == [k \in {} |-> NoContext]
Leaf(kind) == [kind |-> kind, kids |-> NoKids]
Object(kids) == [kind |-> "object", kids |-> kids]
Censor == Leaf("censor")

\* The path of a value in another one, what is there, and the paths there are.
Paths == UNION {[1 .. n -> Fields] : n \in 0 .. MaxNesting}

At(value, path) ==
    LET at[n \in 0 .. Len(path)] == IF n = 0 THEN value ELSE at[n - 1].kids[path[n]]
    IN  at[Len(path)]

PathsOf(value) ==
    {p \in Paths : \A n \in 1 .. Len(p) : p[n] \in DOMAIN At(value, SubSeq(p, 1, n - 1)).kids}

-----------------------------------------------------------------------------
(* The calls.                                                              *)

IsNode(x) ==
    /\ x = [kind |-> x.kind, kids |-> x.kids] /\ x.kind \in Kinds
    /\ x.kids = [k \in DOMAIN x.kids |-> x.kids[k]] /\ DOMAIN x.kids \subseteq Fields
    /\ x.kind # "object" => x.kids = NoKids

IsValue(value) ==
    \A p \in PathsOf(value) : /\ IsNode(At(value, p))
                              /\ Len(p) = MaxNesting => At(value, p).kids = NoKids

IsContext(c) == IsValue(Object(c))

\* s has the settings: denylist and pii are on or off, paths are the compiled
\* ones without a wildcard, wildcards the bases of the others, maxDepth is
\* redactDepth, serializers has the result of each serializer by its key.
IsSettings(s) ==
    /\ {s.denylist, s.pii, s.filtered, s.schemaVersion} \subseteq BOOLEAN /\ s.maxDepth \in Nat
    /\ s.serializers = NoContext \/ IsContext(s.serializers)
    /\ s.mixin = NoContext \/ IsContext(s.mixin)

IsCall(r) ==
    /\ IsSettings(r.s) /\ IsValue(r.message.value) /\ r.message.long \in BOOLEAN
    /\ IsContext(r.static) /\ r.static # NoContext
    /\ r.lazy = NoContext \/ IsContext(r.lazy)
    /\ r.async = NoContext \/ IsContext(r.async)

ASSUME EntryAssumption ==
    /\ MaxNesting \in Nat \ {0} /\ DeniedFields \cup ErrorFields \subseteq Fields
    /\ PlainKinds \cap (Strings \cup {"array", "object", "error", "serialized"}) = {}
    /\ \A r \in BuildCalls : IsCall(r)

-----------------------------------------------------------------------------
(* Redaction.                                                              *)

NeedsRedaction(s) == s.denylist \/ s.pii \/ s.paths # {} \/ s.wildcards # {}

PathMatches(s, path) == path \in s.paths \/ \E base \in s.wildcards : IsPrefix(base, path)

Masked(s, key, path) == PathMatches(s, path) \/ (s.denylist /\ key \in DeniedFields)

\* needsRedactionScan(): whether a child makes its parent be copied.
Scanned(s, key, child, path) ==
    \/ Masked(s, key, path)
    \/ child.kind \in Strings /\ s.pii
    \/ child.kind = "bearer" /\ s.denylist
    \/ child.kind \in {"object", "array", "error", "serialized"}

\* redactInternal() and redactObject() for the value at a path; under holds what
\* the calls for the values below return.
RedactInternal(s, value, path, under) ==
    LET copies == /\ NeedsRedaction(s)
                  /\ \E k \in DOMAIN value.kids : Scanned(s, k, value.kids[k], Append(path, k))
    IN  IF Len(path) > s.maxDepth THEN Censor ELSE
        CASE value.kind = "error" -> Leaf("serialized")
          [] value.kind = "bearer" /\ s.denylist -> Leaf("text")
          [] value.kind = "email" /\ s.pii -> Leaf("text")
          [] value.kind = "array" -> Leaf("text")
          [] value.kind = "object" /\ copies ->
               Object([k \in DOMAIN value.kids |->
                         IF Masked(s, k, Append(path, k)) THEN Censor ELSE under[Append(path, k)]])
          [] OTHER -> value

Redacted(s, value) ==
    LET under[path \in PathsOf(value)] == RedactInternal(s, At(value, path), path, under)
    IN  under[<<>>]

\* Mutant of RedactValue: only masked keys of the object itself make it be copied.
RedactShallow(s, value) ==
    IF value.kind = "object" /\ \A k \in DOMAIN value.kids : ~Masked(s, k, <<k>>)
      THEN value ELSE Redacted(s, value)

\* compileRedactValue(): the identity when there is nothing to mask.
RedactValue(s, value) == IF NeedsRedaction(s) THEN Redacted(s, value) ELSE value

-----------------------------------------------------------------------------
(* The entry.                                                              *)

\* { ...below, ...context }
Spread(context, below) ==
    [k \in DOMAIN context \cup DOMAIN below |-> IF k \in DOMAIN context THEN context[k] ELSE below[k]]

\* mergeEntryContext()
MergeContext(static, lazy, async) ==
    LET hasStatic == DOMAIN static # {}
        hasAsync == async # NoContext /\ DOMAIN async # {}
    IN  IF ~hasStatic /\ lazy = NoContext THEN IF hasAsync THEN async ELSE NoKids ELSE
        CASE ~hasAsync /\ ~hasStatic -> lazy
          [] ~hasAsync /\ hasStatic -> IF lazy = NoContext THEN static ELSE Spread(lazy, static)
          [] hasAsync /\ ~hasStatic -> Spread(lazy, async)
          [] hasAsync /\ hasStatic -> LET below == Spread(static, async)
                                      IN  IF lazy = NoContext THEN below ELSE Spread(lazy, below)

\* withMixin(): a mixin that throws adds nothing.
WithMixin(context, mixin) == IF mixin = NoContext THEN context ELSE Spread(context, mixin)

\* applySerializers(): the result of one may be anything, an Error also, and is
\* a text when it throws.
ApplySerializers(context, serializers) ==
    IF serializers = NoContext THEN context
    ELSE [k \in DOMAIN context |-> IF k \in DOMAIN serializers THEN serializers[k] ELSE context[k]]

SerializeErrorKeys(context) ==
    [k \in DOMAIN context |->
        IF k \in ErrorFields /\ context[k].kind = "error" THEN Leaf("serialized") ELSE context[k]]

\* String(value)
AsString(value) == IF value.kind \in Strings THEN value ELSE Leaf("text")

\* sanitizeMessage(): only a message that went through the redaction is cut.
SanitizeMessage(s, message) ==
    IF ~NeedsRedaction(s) /\ message.value.kind \in Strings THEN message
    ELSE [value |-> AsString(RedactValue(s, message.value)), long |-> FALSE]

SanitizeContext(s, context) ==
    IF ~NeedsRedaction(s) \/ DOMAIN context = {} THEN context
    ELSE RedactValue(s, Object(context)).kids

BuildEntry(r) ==
    LET merged == WithMixin(MergeContext(r.static, r.lazy, r.async), r.s.mixin)
    IN  IF r.s.filtered THEN NotBuilt
        ELSE [message |-> SanitizeMessage(r.s, r.message),
              context |-> SanitizeContext(r.s, SerializeErrorKeys(ApplySerializers(merged, r.s.serializers)))]

BuildEntryFast(r) ==
    [message |-> [value |-> AsString(r.message.value), long |-> FALSE],
     context |-> SerializeErrorKeys(MergeContext(r.static, r.lazy, r.async))]

\* The choice of applyHotSettings().
FastPlan(s) == /\ ~NeedsRedaction(s) /\ s.serializers = NoContext /\ s.mixin = NoContext
               /\ ~s.filtered /\ ~s.schemaVersion

EntryPlan(r) == IF FastPlan(r.s) THEN BuildEntryFast(r) ELSE BuildEntry(r)

-----------------------------------------------------------------------------
(* One call is made; calls share no state.                                 *)

EntryInit == buildCall = NotBuilt /\ builtEntry = NotBuilt

LogCall(r) == buildCall' = r /\ builtEntry' = EntryPlan(r)

EntryNext == buildCall = NotBuilt /\ \E r \in BuildCalls : LogCall(r)

EntrySpec == EntryInit /\ [][EntryNext]_entryVars

-----------------------------------------------------------------------------
(* Properties.                                                             *)

\* A path that the settings ask to be masked, itself or through a parent.
Secret(s, path) == \E n \in DOMAIN path : Masked(s, path[n], SubSeq(path, 1, n))

Built == builtEntry # NotBuilt
After == Object(builtEntry.context)
Before == Object(MergeContext(buildCall.static, buildCall.lazy, buildCall.async))

\* Whatever the short cut for objects that need no copy does: no value under a
\* masked key or path is left, no string keeps what a detector finds, and no
\* object is left below the depth.  An Error that is not masked is left whole as
\* a serialized error, so what its texts hold is excepted.
NothingSecretLeft ==
    Built => \A p \in PathsOf(After) :
        /\ Secret(buildCall.s, p) => At(After, p) = Censor
        /\ At(After, p).kind = "bearer" => ~buildCall.s.denylist
        /\ At(After, p).kind = "email" => ~buildCall.s.pii
        /\ At(After, p).kind \in {"object", "error", "serialized"} =>
             ~NeedsRedaction(buildCall.s) \/ Len(p) <= buildCall.s.maxDepth

\* No Error is left, which JSON shows without its message, by the redaction; when
\* it is off, none is left under the two keys.
ErrorsExpanded ==
    Built => \A p \in PathsOf(After) : At(After, p).kind = "error" =>
        ~NeedsRedaction(buildCall.s) /\ \A k \in ErrorFields : p # <<k>>

\* A message is a string without anything a detector finds.
MessageIsClean ==
    Built => /\ builtEntry.message.value.kind \in Strings
             /\ builtEntry.message.value.kind = "bearer" => ~buildCall.s.denylist
             /\ builtEntry.message.value.kind = "email" => ~buildCall.s.pii

\* Nothing else is lost: what is neither masked, nor found, nor too deep is
\* still there.
RestIsKept ==
    Built /\ buildCall.s.serializers = NoContext => \A p \in PathsOf(Before) :
        ~Secret(buildCall.s, p) /\ Len(p) <= buildCall.s.maxDepth /\ At(Before, p).kind \in PlainKinds =>
            p \in PathsOf(After) /\ At(After, p) = At(Before, p)

\* Redacting an entry a second time changes nothing.
RedactionIdempotent ==
    Built /\ NeedsRedaction(buildCall.s) /\ builtEntry.context # NoKids =>
        RedactValue(buildCall.s, After) = After

\* A key has the value of the most specific context that has it.
Sources == <<buildCall.lazy, buildCall.static, buildCall.async, buildCall.s.mixin>>
Defines(i, k) == Sources[i] # NoContext /\ k \in DOMAIN Sources[i]
MostSpecificWins ==
    Built /\ ~NeedsRedaction(buildCall.s) /\ buildCall.s.serializers = NoContext =>
        \A k \in Fields :
            /\ k \in DOMAIN builtEntry.context <=> \E i \in DOMAIN Sources : Defines(i, k)
            /\ \A i \in DOMAIN Sources :
                 Defines(i, k) /\ (\A j \in 1 .. i - 1 : ~Defines(j, k)) =>
                     builtEntry.context[k] = IF k \in ErrorFields /\ Sources[i][k].kind = "error"
                                             THEN Leaf("serialized") ELSE Sources[i][k]

\* Where buildEntryFast() may be used, it makes the entry of buildEntry(), but
\* for the length of a string message, which only the fast one cuts.
PlansAgree ==
    Built /\ FastPlan(buildCall.s) =>
        LET slow == BuildEntry(buildCall)
        IN  /\ slow.context = builtEntry.context /\ slow.message.value = builtEntry.message.value
            /\ slow.message.long => buildCall.message.long /\ buildCall.message.value.kind \in Strings

\* An entry is what was logged, without what the settings ask to be masked.
EntriesAreClean ==
    /\ NothingSecretLeft /\ ErrorsExpanded /\ MessageIsClean /\ RestIsKept /\ RedactionIdempotent
    /\ MostSpecificWins /\ PlansAgree
=============================================================================
