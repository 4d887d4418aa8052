---------------------------- MODULE WallknobProof ----------------------------
(***************************************************************************)
(* What wallknob holds and shows, for all goals, turns and temperatures.   *)
(* The two threads write the same variables without a lock; what saves the *)
(* result is order.  The last event on its way, or being read, has goals   *)
(* the thermostat held since the last request, and so has the reply, so    *)
(* whichever thread writes a goal last writes one of those.  And a thread  *)
(* that leaves something undrawn has written to a pipe, or will, before    *)
(* `adjusting' is FALSE again.                                             *)
(***************************************************************************)
EXTENDS Wallknob, SequenceTheorems, TLAPS

\* The places of the two threads.  The main thread is in the middle of something only
\* while an adjustment is under way, and past a side of the reply it has that side.
Places ==
    /\ weather \in {"poll", "high", "set high", "draw high", "low", "set low", "draw low",
                    "redraw"}
    /\ main \in {"wait", "redraw", "copy high", "copy low", "shift", "reply high",
                 "reply low", "finish"}
    /\ main \notin {"wait", "redraw"} => adjusting
    /\ main \in {"reply low", "finish"} => reply # Nothing /\ active["high"]
    /\ main = "finish" => active["low"]

\* A side of the event under way that is still to be stored.
Unread(s) ==
    \/ weather \in {"high", "set high"}
    \/ s = "low" /\ weather \in {"draw high", "low", "set low"}

Recent(x, s) == \E g \in since : x = g[s]

\* The last that wallknob will hear is of a goal held since its last request.
LastNews ==
    IF events # <<>> THEN events[Len(events)] \in since
    ELSE \A s \in Sides : IF Unread(s) THEN event \in since ELSE Recent(cur[s], s)

News ==
    /\ goal \in since
    /\ reply # Nothing => reply \in since
    /\ subscribed /\ ~publishing => LastNews

\* Both goals are active outside an adjustment, but for the low one until the first
\* event is read.
Activated ==
    /\ adjusting => ready
    /\ ready \/ weather = "set high" => active["high"]
    /\ weather \in {"draw high", "low", "set low", "draw low"} => ready
    /\ ready /\ ~adjusting /\ weather \notin {"draw high", "low"} => active["low"]
    /\ subscribed /\ events = <<>> => ready \/ weather \in {"high", "set high"}

\* What is not on the screen is asked for in a pipe, or will be.
Undrawn ==
    /\ weather \in {"draw high", "draw low"} /\ saw /\ ~adjusting => wake
    /\ ready /\ weather = "poll" /\ ~adjusting /\ ~wake /\ ~redraw /\ main # "redraw"
          => shown = Drawn
    /\ ~redraw /\ main # "redraw" => shownTemp \in {Nothing, <<temp, units>>}

Inv == TypeOK /\ Places /\ News /\ Activated /\ Undrawn
----------------------------------------------------------------------------
\* Types.

\* What a thread leaves alone is written in groups of variables.
LEMMA TypeStep ==
    ASSUME TypeOK, Places, [Next]_vars
    PROVE  TypeOK'
<1> USE WallknobAssumption
    DEF TypeOK, tstatVars, goalVars, screenVars, weatherVars, menuVars, mainVars, Sides
<1>0. Blank \in [Sides -> Int] /\ 0 \in Int
  BY DEF Blank
<1>1. CASE TstatRequest
  <2>1. goal' \in [Sides -> Int] /\ reply' \in [Sides -> Int]
    BY <1>1 DEF TstatRequest, Merged, Answer
  <2> QED
    BY <1>1, <2>1 DEF TstatRequest
<1>2. CASE TstatOther
  BY <1>2 DEF TstatOther
<1>3. CASE TstatPublish \/ TstatSubscriber
  <2>1. goal \in [Sides -> Int] /\ events \in Seq([Sides -> Int])
    OBVIOUS
  <2>2. events' = events \/ events' = Append(events, goal)
    BY <1>3 DEF TstatPublish, TstatSubscriber
  <2>3. events' \in Seq([Sides -> Int])
    BY ONLY <2>1, <2>2, SMTT(30)
  <2> QED
    <3>1. /\ publishing' \in BOOLEAN /\ subscribed' \in BOOLEAN
          /\ UNCHANGED <<goal, req, reply, others, turns, active, cur, adj, adjusting,
                         ready, wake, event, saw, turn, menu, scroll, units, redraw,
                         temp>>
      BY <1>3 DEF TstatPublish, TstatSubscriber
    <3> QED
      BY <2>3, <3>1
<1>4. CASE ReceiveEvent
  BY <1>4 DEF ReceiveEvent
<1>5. ASSUME NEW s \in Sides, ActivateSide(s) \/ ReceiveSide(s) \/ DrawSide(s)
      PROVE  TypeOK'
  <2>1. CASE ActivateSide(s)
    <3>1. active' \in [Sides -> BOOLEAN]
      BY <2>1, Zenon DEF ActivateSide
    <3>2. UNCHANGED <<goal, publishing, subscribed, events, req, reply, others, turns, cur,
                      adj, adjusting, ready, wake, event, saw, turn, menu, scroll, units,
                      redraw, temp>>
      BY <2>1 DEF ActivateSide
    <3> QED
      BY <3>1, <3>2
  <2>2. CASE ReceiveSide(s)
    <3>1. /\ cur' \in [Sides -> Int] /\ ready' = TRUE /\ saw' = adjusting
          /\ UNCHANGED <<goal, publishing, subscribed, events, req, reply, others, turns,
                         active, adj, adjusting, wake, event, turn, menu, scroll, units,
                         redraw, temp>>
      BY <2>2 DEF ReceiveSide
    <3> QED
      BY <3>1
  <2>3. CASE DrawSide(s)
    <3>1. /\ event' \in [Sides -> Int] /\ saw' \in BOOLEAN
          /\ UNCHANGED <<goal, publishing, subscribed, events, req, reply, others, turns,
                         active, cur, adj, adjusting, ready, wake, turn, menu, scroll,
                         units, redraw, temp>>
      BY <1>0, <2>3 DEF DrawSide
    <3> QED
      BY <3>1
  <2> QED
    BY <1>5, <2>1, <2>2, <2>3
<1>6. CASE ReadPipe \/ ReadRedrawPipe \/ Redraw
  <2>1. /\ wake' \in BOOLEAN /\ redraw' \in BOOLEAN
        /\ UNCHANGED <<goal, publishing, subscribed, events, req, reply, others, turns,
                       active, cur, adj, adjusting, ready, event, saw, turn, menu,
                       scroll, units, temp>>
    BY <1>6 DEF ReadPipe, ReadRedrawPipe, Redraw
  <2> QED
    BY <2>1
<1>7. CASE WeatherRecv
  <2>1. /\ temp' \in Int
        /\ UNCHANGED <<goal, publishing, subscribed, events, req, reply, others, turns,
                       active, cur, adj, adjusting, ready, wake, event, saw, turn, menu,
                       scroll, units, redraw>>
    BY <1>7 DEF WeatherRecv
  <2> QED
    BY <2>1
<1>8. ASSUME NEW s \in Sides, CopySide(s) \/ ReplySide(s)
      PROVE  TypeOK'
  <2>1. CASE CopySide(s)
    <3>1. adj' \in [Sides -> Int]
      BY <2>1, Zenon DEF CopySide
    <3>2. UNCHANGED <<goal, publishing, subscribed, events, req, reply, others, turns,
                      active, cur, adjusting, ready, wake, event, saw, turn, menu,
                      scroll, units, redraw, temp>>
      BY <2>1 DEF CopySide
    <3> QED
      BY <3>1, <3>2
  <2>2. CASE ReplySide(s)
    <3>1. ASSUME s \in DOMAIN reply
          PROVE  active' \in [Sides -> BOOLEAN] /\ cur' \in [Sides -> Int]
      <4>1. reply[s] \in Int
        BY <3>1 DEF Nothing
      <4>2. /\ active' = [active EXCEPT ![s] = TRUE]
            /\ cur' = [cur EXCEPT ![s] = reply[s]]
        BY <2>2, <3>1, Zenon DEF ReplySide, Store
      <4> QED
        BY <4>1, <4>2, Zenon
    <3>2. ASSUME s \notin DOMAIN reply
          PROVE  active' \in [Sides -> BOOLEAN] /\ cur' \in [Sides -> Int]
      <4>1. UNCHANGED <<active, cur>>
        BY <2>2, <3>2, Zenon DEF ReplySide
      <4> QED
        BY <4>1, Zenon
    <3>3. active' \in [Sides -> BOOLEAN] /\ cur' \in [Sides -> Int]
      BY <3>1, <3>2
    <3>4. UNCHANGED <<goal, publishing, subscribed, events, req, reply, others, turns,
                      adj, adjusting, ready, wake, event, saw, turn, menu, scroll,
                      units, redraw, temp>>
      BY <2>2 DEF ReplySide
    <3> QED
      BY <3>3, <3>4
  <2> QED
    BY <1>8, <2>1, <2>2
<1>9. CASE Shift
  BY <1>9 DEF Shift, Wake
<1>10. CASE MakeAdjustments
  <2>1. req' \in [{t \in Sides : active[t]} -> Int]
    BY <1>10 DEF MakeAdjustments
  <2>2. UNCHANGED <<goal, publishing, subscribed, events, reply, others, turns, active,
                    cur, adj, adjusting, ready, wake, event, saw, turn, menu, scroll,
                    units, redraw, temp>>
    BY <1>10 DEF MakeAdjustments
  <2>3. \E S \in SUBSET Sides : req' \in [S -> Int]
    BY <2>1
  <2> QED
    BY <2>2, <2>3
<1>11. CASE Finish
  <2>1. /\ reply' = Nothing /\ adjusting' \in BOOLEAN /\ wake' \in BOOLEAN
        /\ UNCHANGED <<goal, publishing, subscribed, events, req, others, turns, active,
                       cur, adj, ready, event, saw, turn, menu, scroll, units, redraw,
                       temp>>
    BY <1>11 DEF Finish, Wake
  <2> QED
    BY <2>1
<1>12. CASE UnitsChosen
  BY <1>12 DEF UnitsChosen, AskRedraw
<1>13. CASE KnobTurn \/ ButtonPress
  <2>1. turns' \in 0..MaxTurns
    <3>1. turns \in 0..MaxTurns /\ MaxTurns \in Nat /\ turns < MaxTurns /\ turns' = turns + 1
      BY <1>13, Zenon DEF KnobTurn, ButtonPress
    <3> QED
      BY ONLY <3>1
  <2>2. CASE KnobTurn
    BY <2>1, <2>2 DEF KnobTurn
  <2>3. CASE ButtonPress
    BY <2>1, <2>3 DEF ButtonPress, Open, Choices
  <2> QED
    BY <1>13, <2>2, <2>3
<1>14. CASE MenuScroll
  BY <1>14 DEF MenuScroll
<1>15. CASE MenuSelect
  BY <1>15, SMTT(30) DEF MenuSelect, Selected, Open, Choices, Units
<1>16. CASE UNCHANGED vars
  BY <1>16 DEF vars
<1> QED
  BY <1>1, <1>2, <1>3, <1>4, <1>5, <1>6, <1>7, <1>8, <1>9, <1>10, <1>11, <1>12, <1>13,
     <1>14, <1>15, <1>16
     DEF Next, Tstat, WeatherThread, MainThread, User
----------------------------------------------------------------------------
\* The thermostat keeps it: what it publishes is what it holds.
LEMMA TstatKeepsInv ==
    ASSUME Inv, Tstat \/ TstatOther, TypeOK'
    PROVE  Inv'
<1> USE DEF Inv, weatherVars, goalVars, mainVars, menuVars, screenVars
<1>1. CASE TstatRequest
  <2>1. /\ goal' = Merged(req) /\ reply' = goal' /\ since' = {goal'} /\ publishing'
        /\ UNCHANGED <<subscribed, events, weather, main, active, adjusting, cur, ready,
                       wake, redraw, saw, shown, units, temp, shownTemp, adj>>
    BY <1>1 DEF TstatRequest, Answer
  <2>2. reply' # Nothing
    <3>1. DOMAIN reply' = Sides /\ DOMAIN Nothing = {}
      BY <2>1 DEF Merged, Nothing
    <3> QED
      BY <3>1 DEF Sides
  <2>3. Drawn' = Drawn
    BY <2>1 DEF Drawn
  <2>4. Places' /\ News'
    BY <2>1, <2>2 DEF Places, News
  <2>5. Activated' /\ Undrawn'
    BY <2>1, <2>3 DEF Activated, Undrawn
  <2> QED
    BY <2>4, <2>5
<1>2. CASE TstatOther
  <2>1. /\ since' = since \cup {goal'} /\ publishing'
        /\ UNCHANGED <<subscribed, events, weather, main, active, adjusting, cur, ready,
                       wake, redraw, saw, shown, units, temp, shownTemp, adj, reply>>
    BY <1>2 DEF TstatOther
  <2>2. Drawn' = Drawn
    BY <2>1 DEF Drawn
  <2> QED
    BY <2>1, <2>2, ZenonT(60) DEF Places, News, Activated, Undrawn
<1>3. CASE TstatPublish \/ TstatSubscriber
  <2>1. /\ goal \in [Sides -> Int] /\ goal \in since
        /\ subscribed' => events' = Append(events, goal)
        /\ ~subscribed' => events' = events
        /\ UNCHANGED <<goal, since, weather, main, active, adjusting, cur, ready,
                       wake, redraw, saw, shown, units, temp, shownTemp, adj, reply>>
    BY <1>3 DEF TstatPublish, TstatSubscriber, TypeOK, News
  <2>2. subscribed' => events' # <<>> /\ events'[Len(events')] \in since'
    <3>1. events \in Seq([Sides -> Int])
      BY DEF TypeOK
    <3> QED
      BY <2>1, <3>1
  <2>3. Drawn' = Drawn
    BY <2>1 DEF Drawn
  <2> QED
    BY <2>1, <2>2, <2>3, ZenonT(60) DEF Places, News, LastNews, Activated, Undrawn
<1> QED
  BY <1>1, <1>2, <1>3 DEF Tstat

\* The main thread and the user keep it: it writes goals of the reply only, and wakes
\* the other thread when it is done.
LEMMA MainKeepsInv ==
    ASSUME Inv, MainThread \/ User, TypeOK'
    PROVE  Inv'
<1> USE DEF Inv, tstatVars, weatherVars, goalVars, menuVars, screenVars
<1>0. Sides = {"high", "low"}
  BY DEF Sides
<1>1. ASSUME NEW s \in Sides, CopySide(s)
      PROVE  Inv'
  <2>1. UNCHANGED <<goal, since, reply, subscribed, publishing, events, weather, event,
                    active, cur, adjusting, ready, wake, redraw, saw, shown, units, temp,
                    shownTemp>>
        /\ main \in {"copy high", "copy low"} /\ main' \in {"copy low", "shift"}
    BY <1>0, <1>1 DEF CopySide
  <2> QED
    BY <2>1 DEF Places, News, LastNews, Unread, Recent, Activated, Undrawn
<1>2. ASSUME NEW s \in Sides, ReplySide(s)
      PROVE  Inv'
  <2>1. /\ UNCHANGED <<goal, since, reply, subscribed, publishing, events, weather, event,
                       adjusting, ready, wake, redraw, saw, shown, units, temp, shownTemp>>
        /\ \/ main = "reply high" /\ main' = "reply low" /\ s = "high"
           \/ main = "reply low" /\ main' = "finish" /\ s = "low"
        /\ reply # Nothing
    BY <1>0, <1>2 DEF ReplySide
  <2>2. reply \in [Sides -> Int] /\ s \in DOMAIN reply
    BY <2>1 DEF TypeOK
  <2>3. active' = [active EXCEPT ![s] = TRUE] /\ cur' = [cur EXCEPT ![s] = reply[s]]
    BY <1>2, <2>2 DEF ReplySide, Store
  <2>4. /\ active'["high"] = (active["high"] \/ s = "high")
        /\ active'["low"] = (active["low"] \/ s = "low")
        /\ cur'[s] = reply[s] /\ \A t \in Sides : t # s => cur'[t] = cur[t]
    BY <1>0, <2>3 DEF TypeOK
  <2>5. Places' /\ Activated'
    BY <2>1, <2>4 DEF Places, Activated
  <2>6. News'
    <3>1. Recent(cur[s], s)'
      BY <2>1, <2>4 DEF News, Recent
    <3>2. \A t \in Sides : t # s /\ Recent(cur[t], t) => Recent(cur[t], t)'
      BY <2>1, <2>4 DEF Recent
    <3>3. \A t : Unread(t)' <=> Unread(t)
      BY <2>1 DEF Unread
    <3> QED
      BY <2>1, <3>1, <3>2, <3>3 DEF News, LastNews
  <2>7. Undrawn'
    BY <2>1 DEF Undrawn, Places
  <2> QED
    BY <2>5, <2>6, <2>7
<1>3. CASE Shift \/ MakeAdjustments \/ KnobTurn
  <2>1. /\ UNCHANGED <<goal, since, reply, subscribed, publishing, events, weather, event,
                       active, cur, ready, redraw, saw, shown, units, temp, shownTemp>>
        /\ adjusting' /\ (wake => wake')
        /\ main # "redraw" /\ main' \in {"wait", "reply high", "shift", "copy high"}
    <3>1. CASE Shift
      BY <3>1 DEF Shift, Wake, Places
    <3>2. CASE MakeAdjustments
      BY <3>2 DEF MakeAdjustments
    <3>3. CASE KnobTurn
      BY <3>3 DEF KnobTurn
    <3> QED
      BY <1>3, <3>1, <3>2, <3>3
  <2>2. ready
    BY <1>3 DEF Shift, MakeAdjustments, KnobTurn, Places, Activated
  <2> QED
    BY <2>1, <2>2 DEF Places, News, LastNews, Unread, Recent, Activated, Undrawn
<1>4. CASE Finish
  <2>1. /\ UNCHANGED <<goal, since, subscribed, publishing, events, weather, event,
                       active, cur, ready, redraw, saw, shown, units, temp, shownTemp>>
        /\ main = "finish" /\ main' = "wait" /\ reply' = Nothing
        /\ UNCHANGED <<adjusting, wake>> \/ (~adjusting' /\ wake')
    BY <1>4 DEF Finish, Wake
  <2>2. ready /\ active["high"] /\ active["low"]
    BY <2>1 DEF Places, Activated
  <2> QED
    BY <2>1, <2>2 DEF Places, News, LastNews, Unread, Recent, Activated, Undrawn
<1>5. CASE UnitsChosen
  <2>1. /\ UNCHANGED <<goal, since, reply, subscribed, publishing, events, weather, event,
                       active, cur, adjusting, ready, wake, saw, shown, units, temp,
                       shownTemp>>
        /\ redraw' /\ main' = "wait"
    BY <1>5 DEF UnitsChosen, AskRedraw
  <2> QED
    BY <2>1 DEF Places, News, LastNews, Unread, Recent, Activated, Undrawn
<1>6. CASE ButtonPress \/ MenuScroll \/ MenuSelect
  <2>1. /\ UNCHANGED <<goal, since, reply, subscribed, publishing, events, weather, event,
                       active, cur, adj, adjusting, ready, wake, redraw, saw, shown, temp,
                       shownTemp>>
        /\ main = "wait" /\ (UNCHANGED <<main, units>> \/ main' = "redraw")
    BY <1>6 DEF ButtonPress, MenuScroll, MenuSelect
  <2>2. UNCHANGED units => Drawn' = Drawn
    BY <2>1 DEF Drawn
  <2> QED
    BY <2>1, <2>2, ZenonT(60) DEF Places, News, LastNews, Unread, Recent, Activated, Undrawn
<1> QED
  BY <1>1, <1>2, <1>3, <1>4, <1>5, <1>6 DEF MainThread, User

\* So does the weather thread: it stores the last event last, and draws unless it saw
\* an adjustment, whose end wakes it.
LEMMA WeatherKeepsInv ==
    ASSUME Inv, WeatherThread \/ WeatherRecv, TypeOK'
    PROVE  Inv'
<1> USE DEF Inv, tstatVars, goalVars, menuVars, mainVars, screenVars
<1>0. Sides = {"high", "low"}
  BY DEF Sides
<1>1. CASE ReceiveEvent
  <2>1. /\ UNCHANGED <<goal, since, reply, subscribed, publishing, main, active, cur,
                       adjusting, ready, wake, redraw, saw, shown, units, temp, shownTemp>>
        /\ weather = "poll" /\ weather' = "high"
        /\ events # <<>> /\ events' = Tail(events) /\ event' = Head(events)
    BY <1>1 DEF ReceiveEvent
  <2>2. LastNews => LastNews'
    <3>1. events \in Seq([Sides -> Int])
      BY DEF TypeOK
    <3>2. CASE events' = <<>>
      <4>1. event' = events[Len(events)]
        <5>1. Len(events) \in Nat \ {0} /\ Len(Tail(events)) = 0
          <6>1. events # <<>> /\ Tail(events) = <<>>
            BY <2>1, <3>2
          <6>2. Len(events) \in Nat \ {0}
            BY ONLY <3>1, <6>1, EmptySeq
          <6>3. Len(<<>>) = 0
            OBVIOUS
          <6> QED
            BY <6>1, <6>2, <6>3
        <5>2. Len(events) = 1
          BY <3>1, <5>1
        <5> QED
          BY <2>1, <3>1, <5>2
      <4> QED
        BY <2>1, <3>2, <4>1 DEF LastNews, Unread
    <3>3. CASE events' # <<>>
      <4>1. events'[Len(events')] = events[Len(events)]
        BY <2>1, <3>1, <3>3
      <4> QED
        BY <2>1, <3>3, <4>1 DEF LastNews
    <3> QED
      BY <3>2, <3>3
  <2> QED
    BY <2>1, <2>2 DEF Places, News, Activated, Undrawn
<1>2. ASSUME NEW s \in Sides, ActivateSide(s)
      PROVE  Inv'
  <2>1. /\ UNCHANGED <<goal, since, reply, subscribed, publishing, events, event, main, cur,
                       adjusting, ready, wake, redraw, saw, shown, units, temp, shownTemp>>
        /\ \/ s = "high" /\ weather = "high" /\ weather' = "set high"
           \/ s = "low" /\ weather = "low" /\ weather' = "set low"
        /\ active' = [active EXCEPT ![s] = @ \/ ~adjusting]
    BY <1>0, <1>2 DEF ActivateSide
  <2>2. /\ active'["high"] = (active["high"] \/ (s = "high" /\ ~adjusting))
        /\ active'["low"] = (active["low"] \/ (s = "low" /\ ~adjusting))
    BY <1>0, <2>1 DEF TypeOK
  <2> QED
    BY <1>0, <2>1, <2>2, ZenonT(60)
    DEF Places, News, LastNews, Unread, Recent, Activated, Undrawn
<1>3. ASSUME NEW s \in Sides, ReceiveSide(s)
      PROVE  Inv'
  <2>1. /\ UNCHANGED <<goal, since, reply, subscribed, publishing, events, event, main,
                       active, adjusting, wake, redraw, shown, units, temp, shownTemp>>
        /\ \/ s = "high" /\ weather = "set high" /\ weather' = "draw high"
           \/ s = "low" /\ weather = "set low" /\ weather' = "draw low"
        /\ cur' = [cur EXCEPT ![s] = event[s]]
        /\ ready' /\ saw' = adjusting
    BY <1>0, <1>3 DEF ReceiveSide
  <2>2. cur'[s] = event[s] /\ \A t \in Sides : t # s => cur'[t] = cur[t]
    BY <2>1 DEF TypeOK
  <2>3. News'
    BY <1>0, <2>1, <2>2, ZenonT(60) DEF News, LastNews, Unread, Recent
  <2> QED
    BY <2>1, <2>3 DEF Places, Activated, Undrawn
<1>4. ASSUME NEW s \in Sides, DrawSide(s)
      PROVE  Inv'
  <2>1. /\ UNCHANGED <<goal, since, reply, subscribed, publishing, events, main, cur, adj,
                       active, adjusting, ready, wake, redraw, units, temp, shownTemp>>
        /\ \/ s = "high" /\ weather = "draw high" /\ weather' = "low" /\ event' = event
           \/ s = "low" /\ weather = "draw low" /\ weather' = "poll"
        /\ ~saw /\ ~adjusting => shown' = Drawn
    <3>1. PICK busy \in {saw, adjusting} : shown' = IF busy THEN shown ELSE Drawn
      BY <1>4 DEF DrawSide
    <3>2. ~saw /\ ~adjusting => shown' = Drawn
      <4>1. ASSUME ~saw, ~adjusting PROVE ~busy
        BY <4>1
      <4> QED
        BY <3>1, <4>1
    <3> QED
      BY <1>0, <1>4, <3>2 DEF DrawSide
  <2>2. Drawn' = Drawn
    BY <2>1 DEF Drawn
  <2>3. News'
    BY <1>0, <2>1 DEF News, LastNews, Unread, Recent
  <2> QED
    BY <2>1, <2>2, <2>3 DEF Places, Activated, Undrawn
<1>5. CASE ReadPipe \/ ReadRedrawPipe
  <2>1. /\ UNCHANGED <<goal, since, reply, subscribed, publishing, events, event, main, cur,
                       active, adjusting, ready, units, temp>>
        /\ weather = "poll" /\ weather' = "redraw"
        /\ UNCHANGED <<redraw, shownTemp>> \/ shownTemp' = <<temp, units>>
    BY <1>5 DEF ReadPipe, ReadRedrawPipe
  <2> QED
    BY <2>1 DEF Places, News, LastNews, Unread, Recent, Activated, Undrawn
<1>6. CASE Redraw
  <2>1. /\ UNCHANGED <<goal, since, reply, subscribed, publishing, events, event, main, cur,
                       adj, active, adjusting, ready, wake, redraw, units, temp, shownTemp>>
        /\ weather = "redraw" /\ weather' = "poll" /\ shown' = Drawn
    BY <1>6 DEF Redraw
  <2>2. Drawn' = Drawn
    BY <2>1 DEF Drawn
  <2> QED
    BY <2>1, <2>2 DEF Places, News, LastNews, Unread, Recent, Activated, Undrawn
<1>7. CASE WeatherRecv
  <2>1. /\ UNCHANGED <<goal, since, reply, subscribed, publishing, events, event, main, cur,
                       adj, active, adjusting, ready, wake, redraw, units, shown, weather>>
        /\ weather = "poll" /\ shownTemp' = <<temp', units>>
    BY <1>7 DEF WeatherRecv
  <2>2. Drawn' = Drawn
    BY <2>1 DEF Drawn
  <2> QED
    BY <2>1, <2>2 DEF Places, News, LastNews, Unread, Recent, Activated, Undrawn
<1> QED
  BY <1>1, <1>2, <1>3, <1>4, <1>5, <1>6, <1>7 DEF WeatherThread

\* The invariant holds.
LEMMA InvHolds == Spec => []Inv
<1>1. Init => Inv
  <2> SUFFICES ASSUME Init PROVE Inv
    OBVIOUS
  <2>1. TypeOK
    <3>1. /\ goal \in [Sides -> Int] /\ cur \in [Sides -> Int] /\ adj \in [Sides -> Int]
          /\ event \in [Sides -> Int] /\ active \in [Sides -> BOOLEAN]
      BY WallknobAssumption DEF Init, Blank
    <3>2. events \in Seq([Sides -> Int]) /\ req = Nothing /\ reply = Nothing
      BY DEF Init
    <3>3. others \in 0..MaxOthers /\ turns \in 0..MaxTurns /\ units \in Units
          /\ turn = 0 /\ menu = "none" /\ scroll \in Int /\ temp \in Int
      BY WallknobAssumption DEF Init
    <3> QED
      BY <3>1, <3>2, <3>3 DEF Init, TypeOK
  <2>2. Places /\ News
    BY DEF Init, Places, News
  <2>3. Activated /\ Undrawn
    BY DEF Init, Activated, Undrawn
  <2> QED
    BY <2>1, <2>2, <2>3 DEF Inv
<1>2. Inv /\ [Next]_vars => Inv'
  <2> SUFFICES ASSUME Inv, [Next]_vars PROVE Inv'
    OBVIOUS
  <2>1. TypeOK'
    BY TypeStep DEF Inv
  <2>2. CASE Next
    BY <2>1, <2>2, TstatKeepsInv, MainKeepsInv, WeatherKeepsInv DEF Next
  <2>3. CASE UNCHANGED vars
    <3>1. UNCHANGED <<goal, since, reply, subscribed, publishing, events, weather, event,
                      main, active, cur, adj, adjusting, ready, wake, redraw, saw, shown,
                      units, temp, shownTemp>>
      BY <2>3 DEF vars, tstatVars, goalVars, screenVars, weatherVars, menuVars, mainVars
    <3>2. Drawn' = Drawn
      BY <3>1 DEF Drawn
    <3>3. Places' /\ News'
      BY <3>1 DEF Inv, Places, News, LastNews, Unread, Recent
    <3>4. Activated' /\ Undrawn'
      BY <3>1, <3>2 DEF Inv, Activated, Undrawn
    <3> QED
      BY <2>1, <3>3, <3>4 DEF Inv
  <2> QED
    BY <2>2, <2>3
<1> QED
  BY <1>1, <1>2, PTL DEF Spec

\* Every variable has its type, whatever the goals, turns and temperatures.
THEOREM TypeSafety == Spec => []TypeOK
<1>1. Inv => TypeOK
  BY DEF Inv
<1> QED
  BY <1>1, InvHolds, PTL

\* Once all is quiet, wallknob holds goals that the thermostat held since it handled
\* wallknob's last request (wallknob.c:668-692, 801-825).
THEOREM ReadsItsWrites == Spec => []ReadsOwnWrites
<1>1. Inv => ReadsOwnWrites
  BY DEF Inv, News, LastNews, Unread, Recent, ReadsOwnWrites, Quiet
<1> QED
  BY <1>1, InvHolds, PTL

\* Once all is quiet, the screen shows them, and the last temperature, in the units
\* last chosen (wallknob.c:735-743, 859-867).
THEOREM ScreenIsRight == Spec => []ScreenSettles
<1>1. Inv => ScreenSettles
  <2> SUFFICES ASSUME Inv, Quiet, subscribed
               PROVE  /\ shown = [goals |-> cur, units |-> units]
                      /\ shownTemp \in {Nothing, <<temp, units>>}
    BY DEF ScreenSettles
  <2>1. ready /\ active["high"] /\ active["low"]
    BY DEF Inv, Activated, Quiet
  <2>2. \A s \in Sides : active[s]
    BY <2>1 DEF Sides
  <2>3. {t \in Sides : active[t]} = Sides /\ \E s \in Sides : active[s]
    BY <2>2 DEF Sides
  <2>4. Drawn.goals = [s \in Sides |-> cur[s]] /\ Drawn.units = units
    BY <2>3 DEF Drawn, Quiet
  <2>5. Drawn = [goals |-> cur, units |-> units]
    BY <2>3 DEF Drawn, Quiet, Inv, TypeOK
  <2> QED
    BY <2>1, <2>5 DEF Inv, Undrawn, Quiet
<1> QED
  BY <1>1, InvHolds, PTL
=============================================================================
