---------------------------- MODULE PresetControl ----------------------------
(***************************************************************************)
(* The monitor's window and the presets.  For every material Level2        *)
(* announces, the window picks the preset file nearest to its size, notes  *)
(* the material for the inference, and, if the line is online, has the     *)
(* preset's exposure, light and focus set - unless it is the preset used   *)
(* last, when only the light is set.  The operator may load presets, type  *)
(* values and set them as well.                                            *)
(*                                                                         *)
(* Loading a file counts it as used before anything is set, and may open a *)
(* message box, whose event loop handles Level2's next announcement while  *)
(* the handler that opened it still has to go on: handlers nest, and end   *)
(* in reverse order.  It may also fail with only some fields filled, and   *)
(* so may the setting of light and focus after it: Level2's handler logs   *)
(* the exception and goes on; out of a button's handler it ends the        *)
(* window.                                                                 *)
(*                                                                         *)
(* Exposure and focus go to the cameras and lenses as messages that may be *)
(* lost.  Of the light there are the levels it is switched on with: the    *)
(* window stores them, and the DMX thread, when a material comes in,       *)
(* stores again the ones it read a moment before (what shines when is      *)
(* LineSignal's).                                                          *)
(***************************************************************************)
EXTENDS Integers, Sequences, FiniteSets

CONSTANTS PresetDirs,     \* directories of presets: sequences of files
          Announced,      \* sizes Level2 announces: [width, height]
          Cameras,        \* camera_ids
          MaxInstructions,\* bound: announcements
          MaxOperations,  \* bound: what the operator and the line do
          MaxLosses       \* bound: messages lost

EditFields == {"exposure", "light", "focus"}

\* a file: the size in its name, the fields it has entries for up to where its
\* loading ends, and how that ends
PresetFiles == [width : Nat, height : Nat, fills : SUBSET EditFields,
                load : {"returns", "box", "raises"}]

ASSUME PresetBoundsAssumption ==
  /\ {MaxInstructions, MaxOperations, MaxLosses} \subseteq Nat
  /\ IsFiniteSet(Cameras)

ASSUME SizesAssumption ==
  /\ PresetDirs \subseteq Seq(PresetFiles)
  /\ Announced \subseteq [width : Int, height : Int]

Typed == -1                             \* a value the operator has typed
NoPreset == 0                           \* "" and None; in a field, what is no number
NoMaterial == [width |-> 0, height |-> 0]

VARIABLES
  presets,          \* __preset_files
  online,           \* __system_online
  combobox,         \* the selected file
  edits,            \* the file each field's values are of
  last,             \* __last_preset_file
  boxes,            \* open message boxes: the file of a handler that waits, NoPreset for the operator's
  inference,        \* the material noted for the inference
  gone,             \* an exception has ended the window's process
  wire,             \* messages on their way to each camera and lens
  device,           \* what each camera and lens is set to
  levels,           \* __brightness_array of the light
  held,             \* the levels the DMX thread has read and not yet stored again
  mixed,            \* history: since a preset was applied as a whole, part of it has been
                    \* overridden, filled or sent, or a message was lost
  failed,           \* history: ... a load has left the fields without its values
  stale,            \* history: since the window stored levels, the DMX thread has put back others
  instructions, operations, losses

window == <<online, combobox, edits, last, boxes, inference, gone>>
light == <<levels, held>>
history == <<mixed, failed, stale>>
counts == <<instructions, operations, losses>>
presetvars == <<presets, window, wire, device, light, history, counts>>

Ends == Cameras \X {"exposure", "focus"}

PresetInit ==
  /\ presets \in PresetDirs
  /\ online = TRUE /\ combobox = IF presets = <<>> THEN NoPreset ELSE 1
  /\ edits = [f \in EditFields |-> NoPreset] /\ last = NoPreset
  /\ boxes = <<>> /\ inference = NoMaterial /\ gone = FALSE
  /\ wire = [e \in Ends |-> <<>>] /\ device = [e \in Ends |-> NoPreset]
  /\ levels = NoPreset /\ held = NoPreset
  /\ mixed = TRUE /\ failed = FALSE /\ stale = FALSE
  /\ instructions = 0 /\ operations = 0 /\ losses = 0
-----------------------------------------------------------------------------
(* __find_nearest_preset: the first of the nearest                         *)

Distance(p, m) == (p.width - m.width) * (p.width - m.width)
                  + (p.height - m.height) * (p.height - m.height)
Nearest(m) ==
  LET nearest == {i \in DOMAIN presets : \A j \in DOMAIN presets :
                    Distance(presets[i], m) <= Distance(presets[j], m)}
  IN  IF presets = <<>> THEN NoPreset
      ELSE CHOOSE i \in nearest : \A j \in nearest : i <= j
-----------------------------------------------------------------------------
(* on_btn_exposure_time_set_all, on_btn_light_level_set_all and            *)
(* on_btn_focus_preset_set_all: what the fields hold is sent               *)

Before == [exposure |-> {}, light |-> {"exposure"}, focus |-> {"exposure", "light"}]

\* a field that holds no number raises an exception, and so may the light's
\* datagram (lit = FALSE) when the levels are stored: what would follow is not sent
Sent(fields, values, lit) ==
  {f \in fields : /\ values[f] # NoPreset
                  /\ \A g \in Before[f] \cap fields : values[g] # NoPreset /\ (g = "light" => lit)}

Send(fields, values) ==
  /\ wire' = [e \in Ends |-> IF e[2] \in fields THEN Append(wire[e], values[e[2]])
                             ELSE wire[e]]
  /\ levels' = IF "light" \in fields THEN values["light"] ELSE levels
  /\ stale' = (stale /\ "light" \notin fields)
  /\ UNCHANGED <<device, held>>

\* mutant of Loaded: the fields are cleared before a file is loaded
LoadedClears(p) == [f \in EditFields |-> IF f \in presets[p].fills THEN p ELSE NoPreset]
\* the fields after on_btn_preset_load
Loaded(p) == [f \in EditFields |-> IF f \in presets[p].fills THEN p ELSE edits[f]]

\* a load that is not followed by sending: the fields differ from what is set
LoadedOnly(p) ==
  /\ mixed' = (mixed \/ presets[p].fills # {})
  /\ failed' = TRUE
  /\ UNCHANGED <<wire, device, light, stale>>

\* on_btn_preset_load and the three setters, in Level2's handler
Apply(p) ==
  /\ edits' = Loaded(p)
  /\ \/ presets[p].load = "returns" /\ UNCHANGED boxes
        /\ \E lit \in BOOLEAN :
             LET sent == Sent(EditFields, edits', lit)
                 whole == sent = EditFields /\ presets[p].fills = EditFields
             IN  /\ Send(sent, edits')
                 /\ failed' = ~whole
                 /\ mixed' = (~whole /\ (mixed \/ presets[p].fills # {}))
     \/ presets[p].load = "box" /\ boxes' = Append(boxes, p) /\ LoadedOnly(p)
     \/ presets[p].load = "raises" /\ UNCHANGED boxes /\ LoadedOnly(p)

\* mutant of LastAfter: the preset counts as used though the line is offline
LastAfterAlways(p) == p
\* __last_preset_file after the handler's branches
LastAfter(p) == IF online THEN p ELSE last

\* add_job_lv2_info; without presets __extract_mt_stand has already failed
NoteMaterial(m, p) == inference' = IF p = NoPreset THEN inference ELSE m

\* on_update_dk_level2_data, in the main or in a message box's event loop; of the
\* preset used last only the light is set, whose datagram, the last thing sent, changes
\* nothing here by failing
Level2Data(m) ==
  LET p == Nearest(m)
  IN  /\ ~gone /\ instructions < MaxInstructions
      /\ instructions' = instructions + 1
      /\ NoteMaterial(m, p)
      /\ \/ /\ p = NoPreset
            /\ UNCHANGED <<combobox, last, edits, boxes, wire, device, light, history>>
         \/ /\ p # NoPreset /\ ~online
            /\ combobox' = p /\ last' = LastAfter(p)
            /\ UNCHANGED <<edits, boxes, wire, device, light, history>>
         \/ /\ p # NoPreset /\ online /\ p = last
            /\ combobox' = p /\ last' = LastAfter(p)
            /\ Send(Sent({"light"}, edits, TRUE), edits)
            /\ UNCHANGED <<edits, boxes, mixed, failed>>
         \/ /\ p # NoPreset /\ online /\ p # last
            /\ combobox' = p /\ last' = LastAfter(p)
            /\ Apply(p)
      /\ UNCHANGED <<presets, online, gone, operations, losses>>

\* the innermost box is dismissed; the handler that opened it sets what the fields
\* now hold and, if that goes through, takes its own preset for the one in use
Dismiss ==
  /\ ~gone /\ boxes # <<>>
  /\ boxes' = SubSeq(boxes, 1, Len(boxes) - 1)
  /\ LET p == boxes[Len(boxes)]
     IN  \/ /\ p = NoPreset
            /\ UNCHANGED <<last, wire, device, light, history>>
         \/ /\ p # NoPreset
            /\ \E lit \in BOOLEAN :
                 LET sent == Sent(EditFields, edits, lit)
                 IN  /\ Send(sent, edits)
                     /\ last' = IF sent = EditFields THEN p ELSE last
            /\ failed' = TRUE /\ UNCHANGED mixed
  /\ UNCHANGED <<presets, online, combobox, edits, inference, gone, counts>>
-----------------------------------------------------------------------------
(* The line and the operator, who is kept from the window by a message box *)

LineSignal ==
  /\ ~gone /\ operations < MaxOperations
  /\ operations' = operations + 1
  /\ online' = ~online
  /\ UNCHANGED <<presets, combobox, edits, last, boxes, inference, gone, wire, device, light,
                 history, instructions, losses>>

Operates ==
  /\ ~gone /\ boxes = <<>> /\ operations < MaxOperations
  /\ operations' = operations + 1
  /\ UNCHANGED <<presets, online, inference, instructions, losses>>

\* on_btn_preset_load: nothing is set yet
OperatorLoads(p) ==
  /\ Operates
  /\ combobox' = p /\ last' = p
  /\ edits' = Loaded(p)
  /\ boxes' = IF presets[p].load = "box" THEN <<NoPreset>> ELSE boxes
  /\ gone' = (presets[p].load = "raises")
  /\ LoadedOnly(p)

OperatorTypes ==
  /\ Operates
  /\ \E f \in EditFields : edits' = [edits EXCEPT ![f] = Typed]
  /\ mixed' = TRUE
  /\ UNCHANGED <<combobox, last, boxes, gone, wire, device, light, failed, stale>>

\* a button that sets one kind of value everywhere
OperatorSets(f) ==
  /\ Operates
  /\ \E lit \in BOOLEAN :
       /\ (f # "light" => lit)
       /\ Send(Sent({f}, edits, lit), edits)
       /\ gone' = (edits[f] = NoPreset \/ ~lit)
  /\ UNCHANGED <<combobox, edits, last, boxes, mixed, failed>>
-----------------------------------------------------------------------------
(* _camera_control_task and _lens_control_subscribe                        *)

Receive(e) ==
  /\ wire[e] # <<>>
  /\ wire' = [wire EXCEPT ![e] = Tail(@)]
  /\ device' = [device EXCEPT ![e] = Head(wire[e])]
  /\ UNCHANGED <<presets, window, light, history, counts>>

\* the message does not arrive, or the camera or lens does not take the value
Lost(e) ==
  /\ wire[e] # <<>> /\ losses < MaxLosses
  /\ losses' = losses + 1
  /\ wire' = [wire EXCEPT ![e] = Tail(@)]
  /\ mixed' = TRUE
  /\ UNCHANGED <<presets, window, device, light, failed, stale, instructions, operations>>
-----------------------------------------------------------------------------
(* The DMX thread as a material comes in: run reads __brightness_array for *)
(* the call, and set_control_multi stores it again                         *)

LightIn ==
  /\ ~gone /\ held = NoPreset /\ levels # NoPreset
  /\ held' = levels
  /\ UNCHANGED <<presets, window, wire, device, levels, history, counts>>

LightStored ==
  /\ ~gone /\ held # NoPreset
  /\ levels' = held /\ held' = NoPreset
  /\ stale' = (stale \/ held # levels)
  /\ UNCHANGED <<presets, window, wire, device, mixed, failed, counts>>
-----------------------------------------------------------------------------
PresetNext ==
  \/ \E m \in Announced : Level2Data(m)
  \/ Dismiss \/ LineSignal \/ OperatorTypes
  \/ \E p \in DOMAIN presets : OperatorLoads(p)
  \/ \E f \in EditFields : OperatorSets(f)
  \/ \E e \in Ends : Receive(e) \/ Lost(e)
  \/ LightIn \/ LightStored

PresetSpec == PresetInit /\ [][PresetNext]_presetvars
-----------------------------------------------------------------------------
(* Properties                                                              *)

Files == {NoPreset} \cup UNION {DOMAIN d : d \in PresetDirs}
Settings == Files \cup {Typed}

\* Type invariant: what is selected, edited, sent and set are preset files, or
\* what the operator typed.
PresetTypeOK ==
  /\ presets \in PresetDirs /\ online \in BOOLEAN /\ gone \in BOOLEAN
  /\ combobox \in Files /\ last \in Files
  /\ edits \in [EditFields -> Settings]
  /\ boxes \in Seq(Files)
  /\ inference \in Announced \cup {NoMaterial}
  /\ wire \in [Ends -> Seq(Settings)] /\ device \in [Ends -> Settings]
  /\ levels \in Settings /\ held \in Settings
  /\ mixed \in BOOLEAN /\ failed \in BOOLEAN /\ stale \in BOOLEAN
  /\ instructions \in 0 .. MaxInstructions /\ operations \in 0 .. MaxOperations
  /\ losses \in 0 .. MaxLosses

\* what a camera or lens will be set to when everything sent has arrived
Final(e) == IF wire[e] = <<>> THEN device[e] ELSE wire[e][Len(wire[e])]

\* the fields, the cameras, the lenses and the light all have the values of one file
AllOf(p) ==
  /\ \A f \in EditFields : edits[f] = p
  /\ \A e \in Ends : Final(e) = p
  /\ levels = p \/ stale

\* The cameras, the lenses and the light are never set to the values of different
\* presets, however announcements nest in message boxes and loads fail in them,
\* from the time a preset was applied as a whole until a part of one is filled or
\* typed in, its sending stops half-way or a message is lost.  Only the light may
\* be out of step, when the DMX thread puts back levels it had read before.
SettingsAgree == ~mixed => AllOf(edits["light"])

\* The preset that counts as in use is then the one that is set, unless a load has
\* failed and left its name without its values: the next material of that size is
\* inspected with whatever the devices are set to.
PresetInUseIsSet == ~mixed /\ ~failed => AllOf(last)
=============================================================================
