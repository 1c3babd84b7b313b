------------------------------- MODULE Symbols -------------------------------
(***************************************************************************)
(* The symbol table of src/scheme.c and the global frame, both hashed by   *)
(* the spelling of names.  Names are looked up without case, in a bucket   *)
(* that is chosen with case; variables are compared as pointers.           *)
(*                                                                         *)
(* A symbol is named by the order in which it was made.  Symbols and       *)
(* global slots are never collected: the table and the frame are roots.    *)
(*                                                                         *)
(* `bound' is history: what the program last assigned to each symbol.      *)
(***************************************************************************)
EXTENDS Naturals, Sequences, FiniteSets

CONSTANTS Names,        \* spellings
          strlwr,       \* the spelling in lower case
          Keywords,     \* the names that assign_syntax adds
          gensym_name,  \* "gensym-0", "gensym-1", ...
          LongMax,      \* as far as gensym counts
          Buckets,
          HashFns,      \* how names may fall into the buckets
          Values,       \* of variables
          MaxGlobals    \* bound on the variables defined

ASSUME NamesAssumption ==
  /\ strlwr \in [Names -> Names]
  /\ Keywords \subseteq Names
  /\ \A m, n \in Keywords : strlwr[m] = strlwr[n] => m = n
  /\ LongMax \in Nat
  /\ gensym_name \in [0..LongMax -> Names]
  /\ HashFns \subseteq [Names -> Buckets]
  /\ MaxGlobals \in Nat

NIL == 0

VARIABLES hash_fn,      \* never changes
          syntax,       \* the keywords still to be added
          symname,      \* the spelling of each symbol
          oblist,       \* the symbols in each bucket, the latest first
          gensym_cnt,
          global_env,   \* the slots in each bucket, the latest first
          returned,     \* of the last expression: the elements of the list
                        \* it returned, or of the list of what it returned
          bound

table == <<symname, oblist>>
globals == <<global_env, bound>>
symbolsVars == <<hash_fn, syntax, table, gensym_cnt, globals, returned>>

Symbols == DOMAIN symname
Symbol(s) == [is |-> "symbol", of |-> <<s>>]
ListOf(l) == [is |-> "pair", of |-> l]

SymbolsInit ==
  /\ hash_fn \in HashFns
  /\ syntax = Keywords
  /\ symname = <<>>
  /\ oblist = [b \in Buckets |-> <<>>]
  /\ gensym_cnt = 0
  /\ global_env = [b \in Buckets |-> <<>>]
  /\ returned = {}
  /\ bound = <<>>
-----------------------------------------------------------------------------
stricmp(m, n) == strlwr[m] = strlwr[n]

oblist_find_by_name(name) ==
  LET bucket == oblist[hash_fn[name]]
      same == {k \in DOMAIN bucket : stricmp(name, symname[bucket[k]])} IN
  IF same = {} THEN NIL
  ELSE bucket[CHOOSE k \in same : \A j \in same : k <= j]

oblist_add_by_name(name) ==
  LET s == Len(symname) + 1 IN
  /\ symname' = Append(symname, name)
  /\ oblist' = [oblist EXCEPT ![hash_fn[name]] = <<s>> \o @]
  /\ returned' = {Symbol(s)}

(* Mutant: the bucket is searched for the very spelling.                   *)
mk_symbol_strict(name) ==
  LET same == {s \in Symbols : symname[s] = name} IN
  IF same # {} THEN returned' = {Symbol(s) : s \in same} /\ UNCHANGED table
  ELSE oblist_add_by_name(name)

mk_symbol(name) ==
  LET s == oblist_find_by_name(name) IN
  IF s # NIL THEN returned' = {Symbol(s)} /\ UNCHANGED table
  ELSE oblist_add_by_name(name)

AssignSyntax(name) ==
  /\ name \in syntax
  /\ syntax' = syntax \ {name}
  /\ oblist_add_by_name(name)
  /\ UNCHANGED <<hash_fn, gensym_cnt, globals>>

(* A name is read: mk_atom puts it in lower case.                          *)
ReadName(name) ==
  /\ syntax = {}
  /\ mk_symbol(strlwr[name])
  /\ UNCHANGED <<hash_fn, syntax, gensym_cnt, globals>>

StringToSymbol(name) ==
  /\ syntax = {}
  /\ mk_symbol(name)
  /\ UNCHANGED <<hash_fn, syntax, gensym_cnt, globals>>

(* Mutant: a symbol of the next name, whether the table has one or not.    *)
GensymUnchecked ==
  /\ syntax = {}
  /\ gensym_cnt < LongMax
  /\ oblist_add_by_name(gensym_name[gensym_cnt])
  /\ gensym_cnt' = gensym_cnt + 1
  /\ UNCHANGED <<hash_fn, syntax, globals>>

(* The count stays at the name that was taken.                             *)
Gensym ==
  LET taken(n) == oblist_find_by_name(gensym_name[n]) # NIL IN
  /\ syntax = {}
  /\ gensym_cnt' \in gensym_cnt..LongMax
  /\ \A n \in gensym_cnt..(gensym_cnt' - 1) : taken(n)
  /\ IF gensym_cnt' = LongMax THEN returned' = {} /\ UNCHANGED table
     ELSE ~taken(gensym_cnt') /\ oblist_add_by_name(gensym_name[gensym_cnt'])
  /\ UNCHANGED <<hash_fn, syntax, globals>>

(* oblist_all_symbols: of each bucket, the list and its tails              *)
Oblist ==
  /\ syntax = {}
  /\ returned' = UNION {{ListOf(SubSeq(oblist[b], k, Len(oblist[b]))) :
                         k \in DOMAIN oblist[b]} : b \in Buckets}
  /\ UNCHANGED <<hash_fn, syntax, table, gensym_cnt, globals>>
-----------------------------------------------------------------------------
(* The global frame                                                        *)
Slot(s, v) == [var |-> s, val |-> v]
Location(s) == hash_fn[symname[s]]

find_slot_in_env(s) ==
  {k \in DOMAIN global_env[Location(s)] : global_env[Location(s)][k].var = s}

(* Mutant: variables go by their lower-case spelling.                      *)
new_slot_by_lower_case(s, v) ==
  LET b == hash_fn[strlwr[symname[s]]] IN
  global_env' = [global_env EXCEPT ![b] = <<Slot(s, v)>> \o @]

new_slot_in_env(s, v) ==
  global_env' = [global_env EXCEPT ![Location(s)] = <<Slot(s, v)>> \o @]

set_slot_in_env(k, s, v) ==
  global_env' = [global_env EXCEPT ![Location(s)][k].val = v]

(* (define s v); a program can write any symbol it can make, by eval.      *)
Define(s, v) ==
  /\ syntax = {}
  /\ s \in DOMAIN bound \/ Cardinality(DOMAIN bound) < MaxGlobals
  /\ IF find_slot_in_env(s) # {}
     THEN \E k \in find_slot_in_env(s) : set_slot_in_env(k, s, v)
     ELSE new_slot_in_env(s, v)
  /\ bound' = [x \in DOMAIN bound \cup {s} |-> IF x = s THEN v ELSE bound[x]]
  /\ returned' = {Symbol(s)}
  /\ UNCHANGED <<hash_fn, syntax, table, gensym_cnt>>

SymbolsNext ==
  \/ \E name \in Names : AssignSyntax(name) \/ ReadName(name) \/ StringToSymbol(name)
  \/ Gensym \/ Oblist
  \/ \E s \in Symbols, v \in Values : Define(s, v)

SymbolsSpec == SymbolsInit /\ [][SymbolsNext]_symbolsVars
-----------------------------------------------------------------------------
(* A symbol is found by its spelling: of two symbols in a bucket none      *)
(* hides the other, whatever names of other case were made before and      *)
(* after, so that (string->symbol (symbol->string s)) is s.  That holds of *)
(* what gensym returns as well, also if the program made a symbol of that  *)
(* name in some case before.                                               *)
FindsItself == \A s \in Symbols : oblist_find_by_name(symname[s]) = s

(* Each symbol has the value it was last given, and a symbol of the same   *)
(* name in other case another.                                             *)
GlobalsHold ==
  \A s \in Symbols :
    {global_env[Location(s)][k].val : k \in find_slot_in_env(s)} =
      IF s \in DOMAIN bound THEN {bound[s]} ELSE {}

(* scheme.c:853: "case-insensitive, per R5RS section 2."                   *)
CaseInsensitive ==
  \A s, r \in Symbols : stricmp(symname[s], symname[r]) => s = r

(* Manual.txt:237: (oblist) "Returns the oblist, an immutable list of all  *)
(* the symbols."                                                           *)
OblistOfSymbols == [][Oblist => returned' = {Symbol(s) : s \in Symbols}]_symbolsVars
=============================================================================
