------------------------------ MODULE Signals ------------------------------
(***************************************************************************)
(* sdk_port-wasi.c: signal masks on top of signal() and raise(), which are *)
(* all that WASI's emulation has.  A signal that is blocked has            *)
(* blocked_handler in place of the program's handler; what it has caught   *)
(* is raised again when sigprocmask() unblocks it.  Signals only come from *)
(* raise(), and a handler may itself call everything there is here.        *)
(***************************************************************************)
EXTENDS Naturals, Sequences

CONSTANTS
    NSIG,       \* 65 in the code
    SetBits,    \* 8: sigset_t is an unsigned char
    WordBits,   \* 32: what a shift distance is taken modulo of
    Refused,    \* the signals signal() does not accept: SIGKILL, SIGSTOP
    MaxDepth    \* bounds the calls in progress inside one another

Signal == 0 .. NSIG - 1
Bit    == 0 .. SetBits - 1

ASSUME SignalsAssumption ==
    /\ NSIG \in Nat /\ MaxDepth \in Nat /\ WordBits \in Nat \ {0}
    /\ SetBits \in 1 .. WordBits /\ SetBits <= NSIG
    /\ Refused \subseteq {s \in Signal : s % WordBits \notin Bit}

VARIABLES
    set,            \* the sigset_t the program builds
    blocked_set,
    pending_array,  \* the signals whose entry is 1
    old_handlers,
    handlers,       \* what signal() has registered
    frames,         \* the calls that raise signals, innermost last
    sigEnded,       \* abort(), or the default action of a signal
    installed,      \* what the program has registered
    owed,           \* the signals that came while blocked and are not delivered
    bypassed        \* the program changed the handler of a blocked signal

mask    == <<blocked_set, pending_array, old_handlers, handlers>>
history == <<installed, owed, bypassed>>
sigVars == <<set, mask, frames, sigEnded, history>>

\* A call that raises the signals left, and is inside the handler of one.
Frame == [left : SUBSET Signal, inHandler : BOOLEAN]
Own   == {"default", "app"}

SigTypeOK ==
    /\ set \in SUBSET Bit /\ blocked_set \in SUBSET Bit
    /\ pending_array \in SUBSET Signal /\ owed \in SUBSET Signal
    /\ old_handlers \in [Signal -> Own \cup {"blocked_handler"}]
    /\ handlers \in [Signal -> Own \cup {"blocked_handler"}]
    /\ installed \in [Signal -> Own]
    /\ frames \in Seq(Frame) /\ Len(frames) <= MaxDepth
    /\ sigEnded \in BOOLEAN /\ bypassed \in BOOLEAN

SigInit ==
    /\ set = {} /\ blocked_set = {} /\ pending_array = {}
    /\ handlers = [s \in Signal |-> "default"]
    /\ old_handlers = handlers /\ installed = handlers
    /\ frames = <<>> /\ sigEnded = FALSE
    /\ owed = {} /\ bypassed = FALSE
-----------------------------------------------------------------------------
Top       == frames[Len(frames)]
Outer     == SubSeq(frames, 1, Len(frames) - 1)
Push(raised) == IF raised = {} THEN frames
                ELSE Append(frames, [left |-> raised, inHandler |-> FALSE])

\* The program runs: no call is raising signals, or the innermost one has
\* called a handler.
Running == ~sigEnded /\ (frames # <<>> => Top.inHandler)

\* 1U << sig, cut off to a sigset_t; the test (set >> sig) & 1 that the loops
\* of sigprocmask make, which signals that share a bit pass together.
BitOf(sig)    == sig % WordBits
Mask(sig)     == {BitOf(sig)} \cap Bit
In(bits)      == {s \in Signal : BitOf(s) \in bits}
IsBlocked(s)  == BitOf(s) \in blocked_set

Changes(newSet) ==
    /\ Running
    /\ set' = newSet
    /\ UNCHANGED <<mask, frames, sigEnded, history>>

Sigemptyset    == Changes({})
\* The constant is shifted by 64, which has no defined value.
Sigfillset     == \E bits \in SUBSET Bit : Changes(bits)
\* A number that is not a signal changes nothing (EINVAL).
Sigaddset(sig) == Changes(IF sig \in Signal THEN set \cup Mask(sig) ELSE set)
Sigdelset(sig) == Changes(IF sig \in Signal THEN set \ Mask(sig) ELSE set)
\* sigprocmask with an old_set and no set.
Sigquery       == Changes(blocked_set)

\* The calls that report a result and do nothing else, one group per source.
Sigaction  == Running /\ UNCHANGED sigVars
Sigwaits   == Running /\ UNCHANGED sigVars
Sigpending == Running /\ UNCHANGED sigVars
-----------------------------------------------------------------------------
Operation == {"SIG_BLOCK", "SIG_SETMASK", "SIG_UNBLOCK", "other"}

NewBlockedSet(operation) ==
    CASE operation = "SIG_BLOCK"   -> blocked_set \cup set
      [] operation = "SIG_SETMASK" -> set
      [] operation = "SIG_UNBLOCK" -> blocked_set \ set
      [] OTHER                     -> blocked_set

\* Mutant: a signal that is already blocked is blocked again.
AllOfNew(operation) == NewBlockedSet(operation)
ToBlock(operation)   == NewBlockedSet(operation) \ blocked_set
ToUnblock(operation) == blocked_set \ NewBlockedSet(operation)

\* What has been caught of the signals to unblock, read before their entries
\* are cleared.  Mutant: after.
NothingReceived(sigs) == {}
Received(sigs) == sigs \cap pending_array

\* Both loops are over signals that are different in each, so that it does not
\* matter in which order they run; signal() refuses none of them.
Sigprocmask(operation) ==
    LET block   == In(ToBlock(operation))
        unblock == In(ToUnblock(operation))
    IN /\ Running /\ Len(frames) < MaxDepth
       /\ \A s \in unblock : handlers[s] = "blocked_handler"
       /\ blocked_set' = (blocked_set \ ToUnblock(operation))
                              \cup {BitOf(s) : s \in block}
       /\ pending_array' = pending_array \ (block \cup unblock)
       /\ old_handlers' = [s \in Signal |->
              IF s \in block THEN handlers[s] ELSE old_handlers[s]]
       /\ handlers' = [s \in Signal |->
              CASE s \in block   -> "blocked_handler"
                [] s \in unblock -> old_handlers[s]
                [] OTHER         -> handlers[s]]
       /\ frames' = Push(Received(unblock))
       /\ UNCHANGED <<set, sigEnded, history>>

\* "The application changed a signal handler while the signal was blocked ...
\* We don't support this."
SigprocmaskAborts(operation) ==
    /\ Running
    /\ \E s \in In(ToUnblock(operation)) : handlers[s] # "blocked_handler"
    /\ sigEnded' = TRUE
    /\ UNCHANGED <<set, mask, frames, history>>
-----------------------------------------------------------------------------
\* signal(), called by the program.
SetHandler(s, h) ==
    /\ Running /\ s \notin Refused
    /\ handlers' = [handlers EXCEPT ![s] = h]
    /\ installed' = [installed EXCEPT ![s] = h]
    /\ bypassed' = (bypassed \/ IsBlocked(s))
    /\ UNCHANGED <<set, blocked_set, pending_array, old_handlers, frames,
                   sigEnded, owed>>

\* raise(), called by the program.
Raise(s) ==
    /\ Running /\ Len(frames) < MaxDepth
    /\ frames' = Push({s})
    /\ UNCHANGED <<set, mask, sigEnded, history>>

\* A call takes its next signal, from the lowest up.
NextUp == CHOOSE s \in Top.left : \A t \in Top.left : s <= t
Raising == ~sigEnded /\ frames # <<>> /\ ~Top.inHandler

\* The frames when the innermost call goes on to the signals left.
GoOn(left) == IF left = {} THEN Outer
              ELSE Append(Outer, [left |-> left, inHandler |-> FALSE])

\* blocked_handler, which registers itself again.
BlockedHandler ==
    /\ Raising /\ handlers[NextUp] = "blocked_handler"
    /\ pending_array' = pending_array \cup {NextUp}
    /\ owed' = owed \cup {NextUp}
    /\ frames' = GoOn(Top.left \ {NextUp})
    /\ UNCHANGED <<set, blocked_set, old_handlers, handlers, sigEnded, installed,
                   bypassed>>

\* A handler of the program's own begins, and returns.
HandlerCalled ==
    /\ Raising /\ handlers[NextUp] = "app"
    /\ owed' = owed \ {NextUp}
    /\ frames' = Append(Outer, [left |-> Top.left \ {NextUp}, inHandler |-> TRUE])
    /\ UNCHANGED <<set, mask, sigEnded, installed, bypassed>>

HandlerReturns ==
    /\ ~sigEnded /\ frames # <<>> /\ Top.inHandler
    /\ frames' = GoOn(Top.left)
    /\ UNCHANGED <<set, mask, sigEnded, history>>

\* The default action, which ignores the signal or ends the process.
DefaultAction ==
    /\ Raising /\ handlers[NextUp] = "default"
    /\ owed' = owed \ {NextUp}
    /\ frames' = GoOn(Top.left \ {NextUp})
    /\ sigEnded' \in BOOLEAN
    /\ UNCHANGED <<set, mask, installed, bypassed>>

SigNext ==
    \/ Sigemptyset \/ Sigfillset \/ Sigquery
    \/ Sigaction \/ Sigwaits \/ Sigpending
    \/ \E s \in 0 .. NSIG : Sigaddset(s) \/ Sigdelset(s)
    \/ \E s \in Signal : Raise(s)
    \/ \E s \in Signal, h \in Own : SetHandler(s, h)
    \/ \E op \in Operation : Sigprocmask(op) \/ SigprocmaskAborts(op)
    \/ BlockedHandler \/ HandlerCalled \/ HandlerReturns \/ DefaultAction

SigSpec == SigInit /\ [][SigNext]_sigVars
-----------------------------------------------------------------------------
\* Blocking and unblocking, nested and in handlers, in any order and with
\* signals that share a bit, never loses the program's own handler: it is in
\* place while the signal is not blocked and kept in old_handlers while it is.
\* A program that leaves blocked signals alone is not aborted by sigprocmask.
HandlersRestored ==
    ~bypassed => \A s \in Signal :
        IF IsBlocked(s)
        THEN handlers[s] = "blocked_handler" /\ old_handlers[s] = installed[s]
        ELSE handlers[s] = installed[s]

\* A signal that came while it was blocked is not forgotten: it is pending and
\* still blocked, or some call of sigprocmask is on its way to raise it.
NothingLost ==
    ~bypassed /\ ~sigEnded => \A s \in owed :
        \/ s \in pending_array /\ IsBlocked(s)
        \/ \E i \in 1 .. Len(frames) : s \in frames[i].left
=============================================================================
