------------------------------ MODULE Wallknob ------------------------------
(***************************************************************************)
(* wallknob: the dial on the wall.  Two threads share the goals and the    *)
(* flag `adjusting' without a lock: the main thread takes the turns of the *)
(* knob and, when the knob has rested, sends the adjusted goals to the     *)
(* thermostat and waits for its reply; the weather thread receives the     *)
(* thermostat's events and the weather and draws.  A key opens the menus,  *)
(* where the knob scrolls and the units of the screen are chosen.  Two     *)
(* pipes wake the weather thread: for the goals, and for the whole screen. *)
(* Every access to shared data that may fall between two of the other      *)
(* thread is a step of its own.                                            *)
(*                                                                         *)
(* The thermostat is the part of tstat that handles goals: it applies a    *)
(* request, replies, and then publishes an event.                          *)
(***************************************************************************)
EXTENDS Integers, Sequences

CONSTANTS Goals,      \* the goals the thermostat may hold at first
          Asked,      \* the goals other clients ask for
          Steps,      \* how far a turn may go
          Temps,      \* the temperatures that are reported
          FirstUnits, \* the units of the configuration
          MaxTurns,   \* bound: the turns of the knob and openings of the menu
          MaxPast,    \* bound: the lines a menu is scrolled past its ends
          MaxOthers   \* bound: the requests of other clients

Sides == {"high", "low"}

\* enum temperature_units: celcius, fahrenheit, tonal.
Units == 0..2

ASSUME WallknobAssumption ==
    /\ Goals \subseteq [Sides -> Int] /\ Asked \subseteq [Sides -> Int]
    /\ Steps \subseteq Int /\ Temps \subseteq Int
    /\ FirstUnits \in Units
    /\ MaxTurns \in Nat /\ MaxPast \in Nat /\ MaxOthers \in Nat

VARIABLES goal,       \* the thermostat's t_goal_high and t_goal_low
          publishing, \* its reply is out, its event is not yet
          subscribed, \* it has seen wallknob's subscription
          events,     \* events on their way to wallknob
          req,        \* the sides and values of a request under way
          reply,      \* the reply on its way
          since,      \* history: goals held since wallknob's last request
          others,     \* requests of other clients so far
          active,     \* goal_high->active, goal_low->active
          cur,        \* ->cur
          adj,        \* ->adj_hp
          adjusting,
          ready,      \* client_tstat_ctl is there
          wake,       \* a byte is in adjusting_pipe
          redraw,     \* a byte is in redraw_pipe
          shown,      \* the goals on the screen and their units
          temp,       \* current_temp
          shownTemp,  \* the temperature on the screen and its units
          weather,    \* where the weather thread is
          event,      \* the event it is reading, Blank outside tstat_recv
          saw,        \* what it read of `adjusting' for this side
          main,       \* where the main thread is
          turn,       \* the turn it is handling, 0 when there is none
          turns,      \* turns and openings of the menu so far
          menu,       \* the menu that is open, or "none"
          scroll,     \* the line it is scrolled to; 0 is its first choice
          units       \* temperature_units

tstatVars == <<goal, publishing, subscribed, since, others>>
goalVars == <<active, cur, adj, adjusting>>
screenVars == <<temp, shownTemp>>
weatherVars == <<weather, event, saw, shown, screenVars>>
menuVars == <<menu, scroll, units, redraw>>
mainVars == <<main, turn, turns, menuVars>>
vars == <<tstatVars, events, req, reply, goalVars, ready, wake,
          weatherVars, mainVars>>

Nothing == <<>>
Blank == [s \in Sides |-> 0]
Junk == [s \in {"junk"} |-> 0]
----------------------------------------------------------------------------
(* The thermostat.                                                         *)

\* Goals that a request does not name stay as they are.
Merged(new) == [s \in Sides |-> IF s \in DOMAIN new THEN new[s] ELSE goal[s]]

\* Mutant of Answer: the reply has only the goals that were named.
AnswerNamed(new) == new

\* The reply has both goals, whatever was named.
Answer(new) == Merged(new)

TstatRequest ==
    /\ req # Nothing /\ ~publishing
    /\ goal' = Merged(req)
    /\ reply' = Answer(req)
    /\ req' = Nothing
    /\ publishing' = TRUE
    /\ since' = {goal'}
    /\ UNCHANGED <<subscribed, others, events, goalVars, ready, wake,
                   weatherVars, mainVars>>

\* The same for a request of another client, whose reply goes elsewhere.
TstatOther ==
    /\ others < MaxOthers /\ ~publishing
    /\ goal' \in Asked
    /\ publishing' = TRUE
    /\ since' = since \cup {goal'}
    /\ others' = others + 1
    /\ UNCHANGED <<subscribed, events, req, reply, goalVars, ready, wake,
                   weatherVars, mainVars>>

TstatPublish ==
    /\ publishing
    /\ publishing' = FALSE
    /\ events' = IF subscribed THEN Append(events, goal) ELSE events
    /\ UNCHANGED <<goal, subscribed, since, others, req, reply, goalVars, ready,
                   wake, weatherVars, mainVars>>

\* A new subscriber is sent the goals.
TstatSubscriber ==
    /\ ~subscribed /\ ~publishing
    /\ subscribed' = TRUE
    /\ events' = Append(events, goal)
    /\ UNCHANGED <<goal, publishing, since, others, req, reply, goalVars, ready,
                   wake, weatherVars, mainVars>>
----------------------------------------------------------------------------
(* The weather thread: tstat_recv, and the redraw the pipe asks for.       *)

ReceiveEvent ==
    /\ weather = "poll"
    /\ events # <<>>
    /\ event' = Head(events)
    /\ events' = Tail(events)
    /\ weather' = "high"
    /\ UNCHANGED <<tstatVars, req, reply, goalVars, ready, wake, saw, shown,
                   screenVars, mainVars>>

\* One side of the event.  The knob may be turned between the write of `active'
\* and that of `cur'; the first value makes it work.
ActivateSide(side) ==
    /\ weather = side
    /\ active' = [active EXCEPT ![side] = @ \/ ~adjusting]
    /\ weather' = IF side = "high" THEN "set high" ELSE "set low"
    /\ UNCHANGED <<tstatVars, events, req, reply, cur, adj, adjusting, ready, wake,
                   event, saw, shown, screenVars, mainVars>>

ReceiveSide(side) ==
    /\ weather = IF side = "high" THEN "set high" ELSE "set low"
    /\ cur' = [cur EXCEPT ![side] = event[side]]
    /\ ready' = TRUE
    /\ saw' = adjusting
    /\ weather' = IF side = "high" THEN "draw high" ELSE "draw low"
    /\ UNCHANGED <<tstatVars, events, req, reply, active, adj, adjusting, wake, event,
                   shown, screenVars, mainVars>>

\* update_win_tempgoal, which leaves out a goal that is not active.  It is one step:
\* whatever the main thread writes meanwhile, it wakes the thread to draw again.
\* With no active goal nothing is written to the buffer it prints.
Drawn ==
    [goals |-> IF \E s \in Sides : active[s]
               THEN [s \in {t \in Sides : active[t]} |->
                        IF adjusting THEN adj[s] ELSE cur[s]]
               ELSE Junk,
     units |-> units]

\* The compiler may read `adjusting' again or not.
DrawSide(side) ==
    /\ weather = IF side = "high" THEN "draw high" ELSE "draw low"
    /\ \E busy \in {saw, adjusting} : shown' = IF busy THEN shown ELSE Drawn
    /\ weather' = IF side = "high" THEN "low" ELSE "poll"
    /\ event' = IF side = "high" THEN event ELSE Blank
    /\ saw' = FALSE
    /\ UNCHANGED <<tstatVars, events, req, reply, goalVars, ready, wake,
                   screenVars, mainVars>>

\* A byte in adjusting_pipe: the goals are drawn.
ReadPipe ==
    /\ weather = "poll"
    /\ wake
    /\ wake' = FALSE
    /\ weather' = "redraw"
    /\ UNCHANGED <<tstatVars, events, req, reply, goalVars, ready, event, saw,
                   shown, screenVars, mainVars>>

Redraw ==
    /\ weather = "redraw"
    /\ shown' = Drawn
    /\ weather' = "poll"
    /\ UNCHANGED <<tstatVars, events, req, reply, goalVars, ready, wake, event,
                   saw, screenVars, mainVars>>

\* A byte in redraw_pipe: the temperature is drawn, and then the goals.
ReadRedrawPipe ==
    /\ weather = "poll"
    /\ redraw
    /\ redraw' = FALSE
    /\ shownTemp' = <<temp, units>>
    /\ weather' = "redraw"
    /\ UNCHANGED <<tstatVars, events, req, reply, goalVars, ready, wake, event, saw,
                   shown, temp, main, turn, turns, menu, scroll, units>>

\* A report of the weather.
WeatherRecv ==
    /\ weather = "poll"
    /\ temp' \in Temps
    /\ shownTemp' = <<temp', units>>
    /\ UNCHANGED <<tstatVars, events, req, reply, goalVars, ready, wake, weather,
                   event, saw, shown, mainVars>>
----------------------------------------------------------------------------
(* The main thread: handle_knob_turn and make_adjustments.                 *)

\* Without a connection to the thermostat the turn is dropped.
KnobTurn ==
    /\ main = "wait" /\ menu = "none"
    /\ turns < MaxTurns
    /\ ready
    /\ turns' = turns + 1
    /\ turn' \in Steps
    /\ adjusting' = TRUE
    /\ main' = IF adjusting THEN "shift" ELSE "copy high"
    /\ UNCHANGED <<tstatVars, events, req, reply, active, cur, adj, ready, wake,
                   weatherVars, menuVars>>

CopySide(side) ==
    /\ main = IF side = "high" THEN "copy high" ELSE "copy low"
    /\ adj' = [adj EXCEPT ![side] = cur[side]]
    /\ main' = IF side = "high" THEN "copy low" ELSE "shift"
    /\ UNCHANGED <<tstatVars, events, req, reply, active, cur, adjusting, ready,
                   wake, weatherVars, turn, turns, menuVars>>

\* A byte is written to adjusting_pipe.
Wake == wake' = TRUE

Shift ==
    /\ main = "shift"
    /\ adj' = [s \in Sides |-> adj[s] - turn]
    /\ Wake
    /\ main' = "wait"
    /\ turn' = 0
    /\ UNCHANGED <<tstatVars, events, req, reply, active, cur, adjusting, ready,
                   weatherVars, turns, menuVars>>

\* The knob has rested for ADJUSTMENT_DELAY_SECS, maybe in a menu.
MakeAdjustments ==
    /\ main = "wait"
    /\ adjusting
    /\ req' = [s \in {t \in Sides : active[t]} |-> adj[s]]
    /\ main' = "reply high"
    /\ UNCHANGED <<tstatVars, events, reply, goalVars, ready, wake, weatherVars,
                   turn, turns, menuVars>>

\* Mutant of Store: the low goal is taken for the high one.
StoreHigh(side) == cur' = [cur EXCEPT !["high"] = reply[side]]

Store(side) == cur' = [cur EXCEPT ![side] = reply[side]]

ReplySide(side) ==
    /\ main = IF side = "high" THEN "reply high" ELSE "reply low"
    /\ reply # Nothing
    /\ IF side \in DOMAIN reply
       THEN /\ active' = [active EXCEPT ![side] = TRUE]
            /\ Store(side)
       ELSE UNCHANGED <<active, cur>>
    /\ main' = IF side = "high" THEN "reply low" ELSE "finish"
    /\ UNCHANGED <<tstatVars, events, req, reply, adj, adjusting, ready, wake,
                   weatherVars, turn, turns, menuVars>>

\* The adjustment is over when the reply had both goals.
Finish ==
    /\ main = "finish"
    /\ main' = "wait"
    /\ reply' = Nothing
    /\ \/ DOMAIN reply = Sides /\ adjusting' = FALSE /\ Wake
       \/ DOMAIN reply # Sides /\ UNCHANGED <<adjusting, wake>>
    /\ UNCHANGED <<tstatVars, events, req, active, cur, adj, ready, weatherVars,
                   turn, turns, menuVars>>
----------------------------------------------------------------------------
(* The main thread: handle_button_press and the menus.                     *)

\* How many choices each menu has.
Choices == [top |-> 2, settings |-> 1, units |-> 3]

\* Mutant of Selected: the end of the list is not minded.
SelectedRaw == scroll

\* The choice in the middle of the screen; past an end, the one at the end.
Selected ==
    IF scroll < 0 THEN 0
    ELSE IF scroll >= Choices[menu] THEN Choices[menu] - 1 ELSE scroll

Open(m, default) == menu' = m /\ scroll' = default

\* A key that is not up or down, or a button.
ButtonPress ==
    /\ main = "wait" /\ menu = "none"
    /\ turns < MaxTurns
    /\ turns' = turns + 1
    /\ Open("top", 0)
    /\ UNCHANGED <<tstatVars, events, req, reply, goalVars, ready, wake,
                   weatherVars, main, turn, units, redraw>>

\* The knob or a key scrolls the menu, as far as it likes.
MenuScroll ==
    /\ main = "wait" /\ menu # "none"
    /\ scroll' \in {scroll - 1, scroll + 1}
    /\ scroll' >= -MaxPast /\ scroll' < Choices[menu] + MaxPast
    /\ UNCHANGED <<tstatVars, events, req, reply, goalVars, ready, wake,
                   weatherVars, main, turn, turns, menu, units, redraw>>

\* Any other key is a choice.
MenuSelect ==
    /\ main = "wait"
    /\ \/ /\ \/ menu = "top" /\ Selected = 0 /\ Open("none", 0)
             \/ menu = "top" /\ Selected = 1 /\ Open("settings", 0)
             \/ menu = "settings" /\ Open("units", units)
          /\ UNCHANGED <<main, units>>
       \/ /\ menu = "units"
          /\ units' = Selected
          /\ Open("none", 0)
          /\ main' = "redraw"
    /\ UNCHANGED <<tstatVars, events, req, reply, goalVars, ready, wake,
                   weatherVars, turn, turns, redraw>>

\* Mutant of AskRedraw: only the goals are drawn again.
AskGoals == Wake /\ UNCHANGED redraw

\* A byte is written to redraw_pipe.
AskRedraw == redraw' = TRUE /\ UNCHANGED wake

UnitsChosen ==
    /\ main = "redraw"
    /\ AskRedraw
    /\ main' = "wait"
    /\ UNCHANGED <<tstatVars, events, req, reply, goalVars, ready, weatherVars,
                   turn, turns, menu, scroll, units>>
----------------------------------------------------------------------------
Init ==
    /\ goal \in Goals
    /\ publishing = FALSE /\ subscribed = FALSE
    /\ events = <<>> /\ req = Nothing /\ reply = Nothing
    /\ since = {goal} /\ others = 0
    /\ active = [s \in Sides |-> FALSE]
    /\ cur = Blank /\ adj = Blank
    /\ adjusting = FALSE /\ ready = FALSE /\ wake = FALSE
    /\ shown = [goals |-> Nothing, units |-> FirstUnits]
    /\ temp = 0 /\ shownTemp = Nothing
    /\ menu = "none" /\ scroll = 0 /\ units = FirstUnits /\ redraw = FALSE
    /\ weather = "poll" /\ event = Blank /\ saw = FALSE
    /\ main = "wait" /\ turn = 0 /\ turns = 0

Tstat == TstatRequest \/ TstatPublish \/ TstatSubscriber

WeatherThread ==
    \/ ReceiveEvent
    \/ \E side \in Sides : ActivateSide(side) \/ ReceiveSide(side) \/ DrawSide(side)
    \/ ReadPipe
    \/ ReadRedrawPipe
    \/ Redraw

\* The main thread, but for what the user does.
MainThread ==
    \/ \E side \in Sides : CopySide(side) \/ ReplySide(side)
    \/ Shift
    \/ MakeAdjustments
    \/ Finish
    \/ UnitsChosen

User == KnobTurn \/ ButtonPress \/ MenuScroll \/ MenuSelect

Next == Tstat \/ TstatOther \/ WeatherThread \/ WeatherRecv \/ MainThread \/ User

Spec == Init /\ [][Next]_vars

\* The processes and both threads run; nobody has to touch the knob, and now and
\* then nobody does for ADJUSTMENT_DELAY_SECS.
FairSpec == Spec /\ WF_vars(Tstat) /\ WF_vars(WeatherThread) /\ WF_vars(MainThread)
----------------------------------------------------------------------------
(* Properties.                                                             *)

\* Every variable has its type; the thermostat always has both goals.
TypeOK ==
    /\ goal \in [Sides -> Int]
    /\ publishing \in BOOLEAN /\ subscribed \in BOOLEAN
    /\ events \in Seq([Sides -> Int])
    /\ req = Nothing \/ \E S \in SUBSET Sides : req \in [S -> Int]
    /\ reply = Nothing \/ reply \in [Sides -> Int]
    /\ others \in 0..MaxOthers /\ turns \in 0..MaxTurns
    /\ active \in [Sides -> BOOLEAN]
    /\ cur \in [Sides -> Int] /\ adj \in [Sides -> Int]
    /\ adjusting \in BOOLEAN /\ ready \in BOOLEAN /\ wake \in BOOLEAN
    /\ event \in [Sides -> Int] /\ saw \in BOOLEAN
    /\ turn \in Steps \cup {0}
    /\ menu \in {"none"} \cup DOMAIN Choices /\ scroll \in Int /\ units \in Units
    /\ redraw \in BOOLEAN /\ temp \in Int

\* Nothing is on its way and nobody is in the middle of anything.
Quiet ==
    /\ events = <<>> /\ ~publishing /\ req = Nothing /\ reply = Nothing
    /\ weather = "poll" /\ main = "wait" /\ ~adjusting /\ ~wake /\ ~redraw

\* When all is quiet, each goal that wallknob holds is one the thermostat held
\* since it handled wallknob's last request: neither an event that was on its
\* way nor the two threads' writes bring back a goal from before the adjustment
\* (wallknob.c:668-692, 801-825).
ReadsOwnWrites ==
    Quiet /\ subscribed => \A s \in Sides : cur[s] \in {g[s] : g \in since}

\* When all is quiet, the screen shows both goals that wallknob holds, and the
\* last temperature reported, all in the units last chosen, however the drawing of
\* one thread fell between the writes of the other (wallknob.c:735-743, 859-867).
ScreenSettles ==
    Quiet /\ subscribed => /\ shown = [goals |-> cur, units |-> units]
                           /\ shownTemp \in {Nothing, <<temp, units>>}

\* An adjustment is sent and ends, if the knob is left alone.
AdjustmentEnds == adjusting ~> ~adjusting
=============================================================================
