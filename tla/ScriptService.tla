--------------------------- MODULE ScriptService ---------------------------
(***************************************************************************)
(* What a ScriptRuntime promises the component that owns it: a script that *)
(* handles one request at a time.  An accepted load or call is begun once, *)
(* in the order of the requests, by the script of the load it was meant    *)
(* for, unless a later load or the end comes first; hints may be dropped,  *)
(* and a request of a stream gives its place to a later one.  What a       *)
(* script answers is shown in order, and never after its successor was     *)
(* asked for.  Mutex, mailbox, pool, workers, health and callbacks do not  *)
(* show here.                                                              *)
(***************************************************************************)
EXTENDS Integers, Sequences

VARIABLES
    asked,      \* the number of the last request
    load,       \* how many loads were accepted
    waiting,    \* requests accepted since the last load and not yet begun
    running,    \* the request in hand, with its load, or nothing
    script,     \* the load whose script is there, or 0
    answers,    \* what is on its way back
    shown,      \* the last answer the owner was shown
    phase       \* "open", "ending" or "ended"

serviceVars == <<asked, load, waiting, running, script, answers, shown, phase>>

\* What becomes of a request: a load discards those before it, a call is never
\* dropped, a stream's gives way to a later one, a hint to anything else.
Nature == {"load", "call", "stream", "hint"}

Own == [of |-> 0, nature |-> "own"]   \* the script's own business: a callback

Request(nature) == [of |-> asked + 1, nature |-> nature]

Init ==
    /\ asked = 0 /\ load = 0
    /\ waiting = {} /\ running = {}
    /\ script = 0
    /\ answers = <<>> /\ shown = [of |-> 0, load |-> 0, by |-> 0]
    /\ phase = "open"

\* A request is refused, or waits; in the place of a hint, or of one of its
\* stream.
Ask(nature) ==
    /\ asked' = asked + 1
    /\ \/ UNCHANGED waiting
       \/ /\ phase = "open" /\ nature # "load"
          /\ \/ waiting' = waiting \union {Request(nature)}
             \/ \E r \in waiting :
                   /\ \/ nature # "hint" /\ r.nature = "hint"
                      \/ nature = "stream" /\ r.nature = "stream"
                   /\ waiting' = (waiting \ {r}) \union {Request(nature)}
    /\ UNCHANGED <<load, running, script, answers, shown, phase>>

Load ==
    /\ phase = "open"
    /\ asked' = asked + 1 /\ load' = load + 1
    /\ waiting' = {Request("load")}
    /\ UNCHANGED <<running, script, answers, shown, phase>>

\* A callback of the script's own takes the place of a hint.
Displace ==
    /\ phase = "open"
    /\ \E r \in waiting : r.nature = "hint" /\ waiting' = waiting \ {r}
    /\ UNCHANGED <<asked, load, running, script, answers, shown, phase>>

\* The next request but for streams, whose place is that of their first.
Begin ==
    /\ phase = "open" /\ running = {}
    /\ \E r \in waiting \union {Own} :
          /\ r.nature \in {"load", "call", "hint"}
             => \A s \in waiting : s.nature # "stream" => r.of <= s.of
          /\ running' = {[of |-> r.of, nature |-> r.nature, load |-> load]}
          /\ waiting' = waiting \ {r}
    /\ UNCHANGED <<asked, load, script, answers, shown, phase>>

\* A load replaces the script by a later one, or by none.
Replace ==
    /\ \E r \in running :
          /\ r.nature = "load" /\ script < r.load
          /\ script' \in {0, r.load}
    /\ UNCHANGED <<asked, load, waiting, running, answers, shown, phase>>

\* The script answers, a request of its own load only.
Answer ==
    /\ \E r \in running :
          /\ script = r.load
          /\ answers' = Append(answers, [of |-> r.of, load |-> r.load, by |-> script])
    /\ running' = {}
    /\ UNCHANGED <<asked, load, waiting, script, shown, phase>>

\* There is no script to load.
Fail ==
    /\ script = 0
    /\ \E r \in running :
          /\ r.nature = "load"
          /\ \E g \in r.load..load :
                answers' = Append(answers, [of |-> 0, load |-> g, by |-> 0])
    /\ running' = {}
    /\ UNCHANGED <<asked, load, waiting, script, shown, phase>>

\* The script has nothing to say to a request.
Pass ==
    /\ \E r \in running : r.nature # "load"
    /\ running' = {}
    /\ UNCHANGED <<asked, load, waiting, script, answers, shown, phase>>

\* An answer is shown unless another load was asked for meanwhile.
Show ==
    /\ answers # <<>>
    /\ answers' = Tail(answers)
    /\ shown' = IF phase = "open" /\ Head(answers).load = load THEN Head(answers) ELSE shown
    /\ UNCHANGED <<asked, load, waiting, running, script, phase>>

End ==
    /\ phase = "open" /\ phase' = "ending"
    /\ waiting' = {}
    /\ UNCHANGED <<asked, load, running, script, answers, shown>>

\* The script leaves, then the end is announced.
Leave ==
    /\ phase = "ending" /\ running = {}
    /\ script' = 0
    /\ UNCHANGED <<asked, load, waiting, running, answers, shown, phase>>

Ended ==
    /\ phase = "ending" /\ running = {} /\ script = 0
    /\ phase' = "ended"
    /\ UNCHANGED <<asked, load, waiting, running, script, answers, shown>>

Next ==
    \/ \E nature \in Nature : Ask(nature)
    \/ Load \/ Displace \/ Begin \/ Replace \/ Answer \/ Fail \/ Pass
    \/ Show \/ End \/ Leave \/ Ended

Spec == Init /\ [][Next]_serviceVars
=============================================================================
