------------------------------- MODULE Loader -------------------------------
(***************************************************************************)
(* sdk_port-wasi-dlfcn.c and dlfcn.h: dlopen() and dlsym() for libraries   *)
(* that are linked into the binary, called by PostgreSQL's dfmgr.c, which  *)
(* opens a library once and keeps its handle.                              *)
(***************************************************************************)
EXTENDS Integers

CONSTANTS
    Library,    \* file names; Plpgsql ends in "/plpgsql.so"
    Plpgsql,
    NoLibrary

ASSUME LoaderAssumption ==
    Plpgsql \in Library /\ NoLibrary \notin Library

VARIABLES
    pydk,        \* whether the binary is built with PYDK
    dltab_index, \* where dltab has the last table; entry 0 is never assigned
    opening,     \* the library dfmgr is about to initialise
    file_list,   \* dfmgr's handles, 0 (NULL) for a library it does not have: the
                 \* index of the library's table
    inits,       \* how often plpgsql's _PG_init has run
    found,       \* the functions that fmgr has got the address of
    trapped,
    overrun      \* a write behind dltab has hit a variable of somebody else

table      == <<pydk, dltab_index, overrun>>
loaderVars == <<table, opening, file_list, inits, found, trapped>>

\* The functions that SQL takes from the libraries, with the symbols that say
\* how they are called.
Finfo == [plpgsql_call_handler   |-> "pg_finfo_plpgsql_call_handler",
          plpgsql_inline_handler |-> "pg_finfo_plpgsql_inline_handler",
          plpgsql_validator      |-> "pg_finfo_plpgsql_validator",
          dsnowball_init         |-> "pg_finfo_dsnowball_init",
          dsnowball_lexize       |-> "pg_finfo_dsnowball_lexize"]
OfPlpgsql == {"plpgsql_call_handler", "plpgsql_inline_handler",
              "plpgsql_validator"}

LoaderTypeOK ==
    /\ pydk \in BOOLEAN /\ trapped \in BOOLEAN /\ overrun \in BOOLEAN
    /\ dltab_index \in Nat
    /\ opening \in Library \cup {NoLibrary}
    /\ file_list \in [Library -> Nat]
    /\ inits \in Nat /\ found \in SUBSET DOMAIN Finfo

LoaderInit ==
    /\ pydk \in BOOLEAN
    /\ dltab_index = 0 /\ opening = NoLibrary
    /\ file_list = [lib \in Library |-> 0]
    /\ inits = 0 /\ found = {} /\ trapped = FALSE /\ overrun = FALSE
-----------------------------------------------------------------------------
\* dict_find_index in the table of lib, which holds one key; dlopen() takes an
\* index above 0 for a hit, which a table that dict_add has made cannot give.
DictFindIndex(lib, filename) == IF lib = filename THEN 0 ELSE -1

\* The scan from the second library on looks into dltab[0] as well, a table at
\* address 0.  It takes its length and its entries from whatever is there,
\* which is where the request of the client is: it hits or misses, or the
\* address of an entry is out of bounds.
Garbage == dltab_index > 0
Misses(filename) == \A lib \in Library :
    file_list[lib] \in 1 .. dltab_index - 1 => DictFindIndex(lib, filename) <= 0

\* ends_with and the call of _PG_init.
InitCalls(filename) == IF filename = Plpgsql THEN 1 ELSE 0

Asks(filename) ==
    /\ ~trapped /\ ~overrun /\ opening = NoLibrary /\ file_list[filename] = 0

\* A new table.  dltab is an array of one element, and the index is counted up
\* before it is used: every table is written behind the array, to memory that
\* nobody uses, or over something else, and then the process is not followed.
Dlopen(filename) ==
    /\ Asks(filename) /\ pydk /\ Misses(filename)
    /\ inits' = inits + InitCalls(filename)
    /\ dltab_index' = dltab_index + 1
    /\ overrun' \in BOOLEAN
    /\ file_list' = [file_list EXCEPT ![filename] = dltab_index']
    /\ opening' = filename
    /\ UNCHANGED <<pydk, found, trapped>>

\* A hit in dltab[0] returns its index, which is NULL: dfmgr reports an error.
\* Without PYDK there are no libraries.
InitsNot(filename) == inits

DlopenNull(filename) ==
    /\ Asks(filename) /\ (pydk => Garbage)
    /\ inits' = InitsNot(filename)
    /\ UNCHANGED <<table, opening, file_list, found, trapped>>

DlopenTraps(filename) ==
    /\ Asks(filename) /\ pydk /\ Garbage
    /\ trapped' = TRUE
    /\ UNCHANGED <<table, opening, file_list, inits, found>>
-----------------------------------------------------------------------------
\* The symbols that every library seems to have.
Stub == [Pg_magic_func |-> "STUB_Pg_magic_func", _PG_init |-> "STUB__PG_init"]

\* dlsym() looks at the name alone.  The _PG_init it returns is a stub: dlopen()
\* has called the real one.  Mutant: the real one.
Listed == {"dsnowball_init", "pg_finfo_dsnowball_init",
           "pg_finfo_dsnowball_lexize", "pg_finfo_plpgsql_call_handler",
           "pg_finfo_plpgsql_inline_handler", "pg_finfo_plpgsql_validator",
           "plpgsql_call_handler", "plpgsql_inline_handler",
           "plpgsql_validator"}
RealInit(symbol) ==
    IF symbol = "Pg_magic_func" THEN Stub[symbol] ELSE symbol
Dlsym(symbol) ==
    CASE symbol \in DOMAIN Stub -> Stub[symbol]
      [] symbol \in Listed      -> symbol
      [] OTHER                  -> "NULL"

\* dfmgr looks up Pg_magic_func, then _PG_init, which it calls.
Initialise ==
    /\ ~overrun /\ opening # NoLibrary /\ Dlsym("Pg_magic_func") # "NULL"
    /\ inits' = IF Dlsym("_PG_init") = "_PG_init" THEN inits + 1 ELSE inits
    /\ opening' = NoLibrary
    /\ UNCHANGED <<table, file_list, found, trapped>>

\* fmgr looks up a function and its description in a library that is loaded.
LookUp(lib, f) ==
    /\ ~trapped /\ ~overrun /\ opening = NoLibrary /\ file_list[lib] # 0
    /\ f \in OfPlpgsql <=> lib = Plpgsql
    /\ found' = IF "NULL" \in {Dlsym(f), Dlsym(Finfo[f])} THEN found
                ELSE found \cup {f}
    /\ UNCHANGED <<table, opening, file_list, inits, trapped>>

LoaderNext ==
    \/ \E lib \in Library : Dlopen(lib) \/ DlopenNull(lib) \/ DlopenTraps(lib)
    \/ Initialise
    \/ \E lib \in Library, f \in DOMAIN Finfo : LookUp(lib, f)

LoaderSpec == LoaderInit /\ [][LoaderNext]_loaderVars
-----------------------------------------------------------------------------
\* plpgsql's _PG_init runs once, although dlopen() and dfmgr both call what
\* they take for it, for every library, and a dlopen() that fails is repeated;
\* and it has run before one of plpgsql's functions can be called.  (Of a
\* process in which a table has been written over something else this says
\* nothing.)
InitOnce ==
    /\ inits = IF file_list[Plpgsql] = 0 THEN 0 ELSE 1
    /\ found \cap OfPlpgsql # {} => inits = 1
=============================================================================
