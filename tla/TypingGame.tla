----------------------------- MODULE TypingGame -----------------------------
(***************************************************************************)
(* The typing game: main_loop of game/src/typing/game.c, the letters of    *)
(* effect.c on their list of include/adt/linklist.h, the pressed keys of   *)
(* keyboard.c, and the two interrupt handlers the game registers with the  *)
(* kernel, which run wherever interrupts are on.                           *)
(*                                                                         *)
(* Positions are in units of the falling speed (0.5 rows).  The clocks     *)
(* tick and now are unbounded; what the game does depends on their         *)
(* difference and on now modulo the period of new letters.  Columns, the   *)
(* score and the drawing are left out.                                     *)
(***************************************************************************)
EXTENDS Integers, FiniteSets, SequencesExt

CONSTANTS
  SIZE,      \* the list's pool has SIZE + 1 nodes, 1001 in the game
  Letters,   \* the letters that fall, a to z in the game
  Bottom,    \* the last position on the screen, 384 in the game
  Rise,      \* the speed of a letter that was hit, 6 in the game
  Period,    \* ticks between new letters, HZ / CHARACTER_PER_SECOND = 33
  MaxLag     \* bound: ticks the game is behind

ASSUME GameAssumption ==
  /\ Letters # {}
  /\ {SIZE, Rise, Period, MaxLag} \subseteq Nat \ {0}
  /\ Bottom \in Nat

(* A letter is in flight for at most Bottom ticks down and what it takes   *)
(* from there up; those that are together at the start of a tick have      *)
(* started Period ticks or more apart.  The pool holds them, the next one  *)
(* and the node fly_new keeps: 13 letters in the game, of 1001 nodes.      *)
ASSUME PoolAssumption ==
  ((Bottom * (Rise + 1)) \div Rise) \div Period <= SIZE - 1

Nodes == 0 .. SIZE
NULL == -1
OtherKey == 0     \* the scan codes that are no letter's
Keys == Letters \union {OtherKey}

VARIABLES
  pc,               \* where main_loop is
  IF_on,            \* the interrupt flag
  lag,              \* tick - now
  todo,             \* target - now
  phase,            \* now % Period
  letter_pressed,
  fly,              \* the list: head, free_head, and per node next and prev
  x, v, text        \* of a node; v is "fall" or "rise"

clock == <<lag, todo, phase>>
nodes == <<x, v, text>>
gameVars == <<pc, IF_on, clock, letter_pressed, fly, nodes>>

-----------------------------------------------------------------------------
(* linklist.h, on the list l *)

(* The pointers met from p on, and the nodes among them *)
Walk(l, p) ==
  LET node[k \in 1 .. SIZE + 1] ==
        IF k = 1 THEN p
        ELSE IF node[k - 1] = NULL THEN NULL ELSE l.next[node[k - 1]]
  IN node

Chain(l, p) ==
  LET met == {k \in 1 .. SIZE + 1 : Walk(l, p)[k] # NULL}
  IN [k \in 1 .. Cardinality(met) |-> Walk(l, p)[k]]

(* The list fly_new takes a node from: it links the pool on its first call *)
Supplied(l) ==
  IF l.free_head # NULL THEN l
  ELSE [l EXCEPT !.next = [n \in Nodes |-> IF n < SIZE THEN n + 1 ELSE @[n]],
                 !.free_head = 0]

(* the assertion of fly_new *)
Available(l) == Supplied(l).next[Supplied(l).free_head] # NULL

fly_new(l) ==
  LET s == Supplied(l)
  IN [s EXCEPT !.free_head = s.next[s.free_head],
               !.next[s.free_head] = NULL, !.prev[s.free_head] = NULL]

fly_insert(l, p, n, obj) ==
  [l EXCEPT
     !.next = [m \in Nodes |-> IF m = p THEN obj ELSE IF m = obj THEN n ELSE @[m]],
     !.prev = [m \in Nodes |-> IF m = n THEN obj ELSE IF m = obj THEN p ELSE @[m]]]

fly_remove(l, node) ==
  [l EXCEPT
     !.next = [m \in Nodes |-> IF m = l.prev[node] THEN l.next[node] ELSE @[m]],
     !.prev = [m \in Nodes |-> IF m = l.next[node] THEN l.prev[node] ELSE @[m]]]

fly_free(l, node) == [l EXCEPT !.next[node] = l.free_head, !.free_head = node]

-----------------------------------------------------------------------------
GameInit ==
  /\ pc = "hlt"
  /\ IF_on = TRUE
  /\ lag = 0 /\ todo = 0 /\ phase = 0
  /\ letter_pressed = [t \in Letters |-> FALSE]
  /\ fly = [head |-> NULL, free_head |-> NULL,
            next |-> [n \in Nodes |-> NULL], prev |-> [n \in Nodes |-> NULL]]
  /\ x = [n \in Nodes |-> 0]
  /\ v = [n \in Nodes |-> "fall"]
  /\ text = [n \in Nodes |-> CHOOSE t \in Letters : TRUE]

InFlight == ToSet(Chain(fly, fly.head))

(* The interrupt handlers.  Any interrupt wakes the halted CPU; one that   *)
(* is taken before the hlt does not end it.                                *)
Interrupt == IF_on /\ pc' = IF pc = "halted" THEN "test" ELSE pc

MutTimerEvent_movesTarget ==         \* main_loop compares with tick itself
  /\ Interrupt
  /\ lag < MaxLag
  /\ lag' = lag + 1
  /\ todo' = IF todo = 0 THEN 0 ELSE todo + 1
  /\ UNCHANGED <<IF_on, phase, letter_pressed, fly, nodes>>

TimerEvent ==
  /\ Interrupt
  /\ lag < MaxLag
  /\ lag' = lag + 1
  /\ UNCHANGED <<IF_on, todo, phase, letter_pressed, fly, nodes>>

KeyboardEvent(key) ==
  /\ Interrupt
  /\ letter_pressed' = [t \in Letters |-> letter_pressed[t] \/ t = key]
  /\ UNCHANGED <<IF_on, clock, fly, nodes>>

-----------------------------------------------------------------------------
(* main_loop *)

(* wait_intr *)
Hlt ==
  /\ pc = "hlt"
  /\ pc' = "halted"
  /\ UNCHANGED <<IF_on, clock, letter_pressed, fly, nodes>>

(* cli, now == tick, target = tick, sti *)
Test ==
  /\ pc = "test"
  /\ IF lag = 0 THEN pc' = "hlt" /\ UNCHANGED todo
                ELSE pc' = "keys" /\ todo' = lag
  /\ UNCHANGED <<IF_on, lag, phase, letter_pressed, fly, nodes>>

MutUpdateKeypress_noSti ==           \* returns with interrupts off
  LET pressed == {n \in InFlight : v[n] = "fall" /\ letter_pressed[text[n]]}
  IN /\ pc = "keys"
     /\ IF_on' = FALSE
     /\ IF pressed # {}
          THEN \E n \in pressed :
                 /\ \A m \in pressed : x[m] <= x[n]
                 /\ v' = [v EXCEPT ![n] = "rise"]
                 /\ letter_pressed' = [letter_pressed EXCEPT ![text[n]] = FALSE]
                 /\ UNCHANGED pc
          ELSE /\ pc' = "tick"
               /\ UNCHANGED <<letter_pressed, v>>
     /\ UNCHANGED <<clock, fly, x, text>>

(* update_keypress turns interrupts on again only when it finds nothing;   *)
(* the loop calls it until then.  No two letters that fall are equally     *)
(* low (PositionsFollowClock), so the order of the list does not matter.   *)
UpdateKeypress ==
  LET pressed == {n \in InFlight : v[n] = "fall" /\ letter_pressed[text[n]]}
  IN /\ pc = "keys"
     /\ IF pressed # {}
          THEN \E n \in pressed :
                 /\ \A m \in pressed : x[m] <= x[n]
                 /\ v' = [v EXCEPT ![n] = "rise"]
                 /\ letter_pressed' = [letter_pressed EXCEPT ![text[n]] = FALSE]
                 /\ IF_on' = FALSE
                 /\ UNCHANGED pc
          ELSE /\ pc' = "tick"
               /\ IF_on' = TRUE
               /\ UNCHANGED <<letter_pressed, v>>
     /\ UNCHANGED <<clock, fly, x, text>>

(* The list with a new letter at its head *)
WithNewLetter(l) ==
  LET obj == Supplied(l).free_head
      new == fly_new(l)
      linked == IF l.head = NULL THEN new ELSE fly_insert(new, NULL, l.head, obj)
  IN [linked EXCEPT !.head = obj]

(* create_new_letter *)
CreateNewLetter(t) ==
  LET obj == Supplied(fly).free_head
  IN /\ pc = "tick"
     /\ phase = 0
     /\ Available(fly)
     /\ fly' = WithNewLetter(fly)
     /\ x' = [x EXCEPT ![obj] = 0]
     /\ v' = [v EXCEPT ![obj] = "fall"]
     /\ text' = [text EXCEPT ![obj] = t]
     /\ letter_pressed' = [letter_pressed EXCEPT ![t] = FALSE]
     /\ pc' = "move"
     /\ UNCHANGED <<IF_on, clock>>

NoNewLetter ==
  /\ pc = "tick"
  /\ phase # 0
  /\ pc' = "move"
  /\ UNCHANGED <<IF_on, clock, letter_pressed, fly, nodes>>

MutMoved_notWhenCreated(n) ==        \* nothing moves in a tick that creates
  IF v[n] = "rise" THEN x[n] - Rise ELSE IF phase = 0 THEN x[n] ELSE x[n] + 1

Moved(n) == IF v[n] = "fall" THEN x[n] + 1 ELSE x[n] - Rise
Above(n) == Moved(n) < 0

MutBelow_late(n) == Moved(n) > Bottom + 1

Below(n) == Moved(n) > Bottom

MutDropped_keepsHead(l, n) ==        \* the head is not moved on
  fly_free(fly_remove(l, n), n)

MutDropped_noFree(l, n) ==           \* the node is not given back
  LET rest == fly_remove(l, n)
  IN IF n = l.head THEN [rest EXCEPT !.head = l.next[n]] ELSE rest

(* One letter of the loop of update_letter_pos that leaves the list l *)
Dropped(l, n) ==
  LET rest == fly_free(fly_remove(l, n), n)
  IN IF n = l.head THEN [rest EXCEPT !.head = l.next[n]] ELSE rest

(* The list after the first k turns of the loop of update_letter_pos.  The *)
(* loop reads the pointer to the next node before one leaves, and Dropped  *)
(* does not touch the pointers behind it: it meets the nodes of flying.    *)
Left(flying) ==
  LET list[k \in 0 .. Len(flying)] ==
        IF k = 0 THEN fly
        ELSE IF Above(flying[k]) \/ Below(flying[k])
               THEN Dropped(list[k - 1], flying[k])
               ELSE list[k - 1]
  IN list

(* update_letter_pos, and the end of the tick in main_loop *)
UpdateLetterPos ==
  LET flying == Chain(fly, fly.head)
  IN /\ pc = "move"
     /\ x' = [n \in Nodes |-> IF n \in InFlight THEN Moved(n) ELSE x[n]]
     /\ fly' = Left(flying)[Len(flying)]
     /\ lag' = lag - 1
     /\ todo' = todo - 1
     /\ phase' = (phase + 1) % Period
     /\ pc' = IF todo' = 0 THEN "hlt" ELSE "tick"
     /\ UNCHANGED <<IF_on, letter_pressed, v, text>>

-----------------------------------------------------------------------------
Handlers == TimerEvent \/ \E key \in Keys : KeyboardEvent(key)

MainLoop ==
  \/ Hlt
  \/ Test
  \/ UpdateKeypress
  \/ \E t \in Letters : CreateNewLetter(t)
  \/ NoNewLetter
  \/ UpdateLetterPos

GameNext == Handlers \/ MainLoop

GameSpec == GameInit /\ [][GameNext]_gameVars

(* The CPU executes the game, and the timer keeps interrupting it *)
GameFairSpec == GameSpec /\ WF_gameVars(MainLoop) /\ WF_gameVars(TimerEvent)

-----------------------------------------------------------------------------
(* Type invariant of the loop, the list and the letters.                   *)
GameTypeOK ==
  /\ pc \in {"hlt", "halted", "test", "keys", "tick", "move"}
  /\ IF_on \in BOOLEAN
  /\ lag \in 0 .. MaxLag
  /\ todo \in 0 .. lag
  /\ phase \in 0 .. Period - 1
  /\ letter_pressed \in [Letters -> BOOLEAN]
  /\ fly \in [head : Nodes \union {NULL}, free_head : Nodes \union {NULL},
              next : [Nodes -> Nodes \union {NULL}],
              prev : [Nodes -> Nodes \union {NULL}]]
  /\ x \in [Nodes -> -Rise .. Bottom + 1]
  /\ v \in [Nodes -> {"fall", "rise"}]
  /\ text \in [Nodes -> Letters]

(* The letters in flight are linked both ways, and every node of the pool  *)
(* is in flight or free, once: new, insert, remove and free lose none,     *)
(* however many letters leave in one tick.                                 *)
ListIntact ==
  LET flying == Chain(fly, fly.head)
      free == Chain(fly, fly.free_head)
  IN /\ \A i \in DOMAIN flying :
          fly.prev[flying[i]] = IF i = 1 THEN NULL ELSE flying[i - 1]
     /\ fly.free_head # NULL =>
          IsInjective(flying \o free) /\ ToSet(flying \o free) = Nodes

(* The pool never runs out: fly_new finds a node whenever main_loop asks   *)
(* for one, as letters leave the screen in time.                           *)
LettersFit == pc = "tick" /\ phase = 0 => Available(fly)

(* Every tick moves every letter once: a falling letter is where the clock *)
(* says.  So no two of them are equally low, and update_keypress's choice  *)
(* of the lowest is unique.                                                *)
PositionsFollowClock ==
  /\ \A n \in InFlight : v[n] = "fall" => x[n] % Period = phase
  /\ \A m, n \in InFlight : m # n /\ v[m] = "fall" /\ v[n] = "fall" => x[m] # x[n]

(* Interrupts are on when the game waits for one, and while it draws or    *)
(* moves letters: update_keypress returns true with interrupts off, but    *)
(* its last call turns them on.                                            *)
InterruptsOnOutsideKeys == pc # "keys" => IF_on

(* The game waits for an interrupt again and again although ticks arrive   *)
(* while it works.                                                         *)
CatchesUp == []<>(pc \in {"hlt", "halted"})
=============================================================================
