-------------------------- MODULE ActionModifiers --------------------------
(***************************************************************************)
(* The modifier handling of action.FromAST and stringToMod (the engine    *)
(* interpreter's CREATE ACTION, src/unnamed/part_001 lines 36-103).        *)
(*                                                                         *)
(* FromAST walks the modifier strings of the statement in order: each is   *)
(* mapped case-insensitively to a Modifier (an unknown one is an error), at *)
(* most one of PUBLIC, PRIVATE, SYSTEM may occur, and each modifier is     *)
(* kept once, in order of first occurrence; an action without an access    *)
(* modifier is an error.  A modifier string is modelled as its lower-case  *)
(* word and whether it was written in upper case, so strings.ToLower is    *)
(* the projection on the word.                                             *)
(***************************************************************************)
EXTENDS Integers, Sequences, SequencesExt

CONSTANTS
    Words,      \* lower-case words a statement may carry as modifiers
    MaxMods     \* bound on the number of modifiers of a statement

VARIABLE mods   \* the modifier strings of the CREATE ACTION statement

Error == "error"

\* A modifier string as written: its word and its case.
ModString == [word : Words, upper : BOOLEAN]

\* strings.ToLower
ToLower(s) == s.word

\* stringToMod: the Modifier of a string, or Error for an unknown one.
stringToMod(s) ==
    CASE ToLower(s) = "public"  -> "PUBLIC"
      [] ToLower(s) = "private" -> "PRIVATE"
      [] ToLower(s) = "system"  -> "SYSTEM"
      [] ToLower(s) = "owner"   -> "OWNER"
      [] ToLower(s) = "view"    -> "VIEW"
      [] OTHER                  -> Error

AccessModifiers == {"PUBLIC", "PRIVATE", "SYSTEM"}

\* Mutant: every modifier is appended, repeats included.
RECURSIVE ModifierLoopNoDedup(_, _, _, _)
ModifierLoopNoDedup(ms, i, kept, hasAccess) ==
    IF i > Len(ms) THEN
        IF hasAccess THEN kept ELSE Error
    ELSE LET mod == stringToMod(ms[i]) IN
        IF mod = Error THEN Error
        ELSE IF mod \in AccessModifiers /\ hasAccess THEN Error
        ELSE ModifierLoopNoDedup(ms, i + 1, Append(kept, mod),
                                 hasAccess \/ mod \in AccessModifiers)

\* The loop of FromAST over ast.Modifiers, from position i on, with the
\* modifiers kept so far and whether an access modifier was already seen.
RECURSIVE ModifierLoop(_, _, _, _)
ModifierLoop(ms, i, kept, hasAccess) ==
    IF i > Len(ms) THEN
        IF hasAccess THEN kept ELSE Error
    ELSE LET mod == stringToMod(ms[i]) IN
        IF mod = Error THEN Error
        ELSE IF mod \in AccessModifiers /\ hasAccess THEN Error
        ELSE ModifierLoop(ms, i + 1,
                          IF mod \in ToSet(kept) THEN kept ELSE Append(kept, mod),
                          hasAccess \/ mod \in AccessModifiers)

\* FromAST's result for the modifiers: a.Modifiers, or Error.
FromAST(ms) == ModifierLoop(ms, 1, <<>>, FALSE)

-----------------------------------------------------------------------------
(* The reference: what the code's comments and error messages say.       *)

\* The modifiers of a statement as written, in order.
Mapped(ms) == [i \in DOMAIN ms |-> stringToMod(ms[i])]

\* Keep the first occurrence of each element of a sequence.
RECURSIVE FirstOccurrences(_)
FirstOccurrences(s) ==
    IF s = <<>> THEN <<>>
    ELSE LET rest == FirstOccurrences(Front(s)) IN
         IF Last(s) \in ToSet(Front(s)) THEN rest ELSE Append(rest, Last(s))

\* "one of PUBLIC, PRIVATE, or SYSTEM access modifier is required" and
\* "only one of PUBLIC, PRIVATE, or SYSTEM is allowed"; every string must
\* name a modifier ("unknown modifier"); the result lists each modifier
\* once, in the order it first appears.
ReferenceModifiers(ms) ==
    LET m == Mapped(ms) IN
    IF \/ Error \in ToSet(m)
       \/ Len(SelectSeq(m, LAMBDA x : x \in AccessModifiers)) # 1
    THEN Error
    ELSE FirstOccurrences(m)

Init == mods \in BoundedSeq(ModString, MaxMods)

Next == UNCHANGED mods

Spec == Init /\ [][Next]_mods

\* For every statement of up to MaxMods modifiers, FromAST accepts exactly
\* the statements the reference accepts and keeps the same modifiers in
\* the same order.
FromASTMatchesReference == FromAST(mods) = ReferenceModifiers(mods)
=============================================================================
