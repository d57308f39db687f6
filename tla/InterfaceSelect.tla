-------------------------- MODULE InterfaceSelect --------------------------
(***************************************************************************)
(* How a daemon is told its device and its bridge: search_interface() and  *)
(* search_bridge(), the same text in Project/dygrefou/dygrefou.c and       *)
(* Lab4/dygre/dygre.c, called one after the other by main().               *)
(*                                                                         *)
(* Without an argument each asks on the terminal, for a number it has      *)
(* printed or for a name.  scanf("%15s") reads one word of up to 15        *)
(* characters and leaves the rest of a longer one to the next question.    *)
(***************************************************************************)
EXTENDS Naturals, Sequences

CONSTANTS
    Text,          \* words, as typed or as names
    None,
    Number,        \* Number[t]: what strtoul() makes of all of t, or None
    Cut,           \* Cut[t]: the first 15 characters of t
    Over,          \* Over[t]: the others, or None
    Word,          \* unsigned counts modulo Word
    DeviceLists,   \* sequences of device names that pcap_findalldevs() may return
    LinkTables     \* sets of links, of which some are bridges, that netlink may return

ASSUME TextAssumption ==
    /\ None \notin Text \cup Nat
    /\ Number \in [Text -> Nat \cup {None}]
    /\ Cut \in [Text -> Text] /\ Over \in [Text -> Text \cup {None}]
    /\ \A t \in Text : (Over[t] = None <=> Cut[t] = t) /\ Cut[Cut[t]] = Cut[t]
ASSUME WordAssumption == Word \in Nat \ {0}
ASSUME DevicesAssumption == DeviceLists \subseteq Seq(Text)
ASSUME LinksAssumption ==
    /\ \A T \in LinkTables : \A l \in T : l.index \in Nat \ {0} /\ l.name \in Text
    /\ \A T \in LinkTables : \A l, m \in T :
           l.index = m.index \/ l.name = m.name => l = m

VARIABLES
    at,         \* the function main() is in, or how it left them
    arg, hint,  \* arguments, or None
    devices,    \* what search_interface() has printed
    links,      \* the link cache of search_bridge()
    left,       \* the rest of a long word, not read yet, or None
    word,       \* the word that was read last
    selected,   \* selected_if, None while empty
    master      \* the bridge's index, 0 while there is none

selectVars == <<at, arg, hint, devices, links, left, word, selected, master>>

SelectInit ==
    /\ at = "search_interface"
    /\ arg \in Text \cup {None} /\ hint \in Text \cup {None}
    /\ devices \in DeviceLists /\ links = {}
    /\ left = None /\ word = None /\ selected = None /\ master = 0

Bridges(T) == {l \in T : l.isBridge}

-----------------------------------------------------------------------------
(* Answers.                                                                *)

\* scanf(): the rest of the last long word, or a word that is typed now.
Scan ==
    IF left # None THEN word' = Cut[left] /\ left' = Over[left]
    ELSE \E t \in Text : word' = Cut[t] /\ left' = Over[t]

\* unsigned id = strtoul()
Id(n) == n % Word

\* The entry i of the list after which the walk stops; mutant: one further.
EntryNext(i) == i + 2
Entry(i) == i + 1

DeviceByNumber(i) == IF Entry(i) \in DOMAIN devices THEN Cut[devices[Entry(i)]] ELSE None

\* Names are compared in full, and stored in IFNAMSIZ characters.
DeviceByName(t) == IF \E i \in DOMAIN devices : devices[i] = t THEN Cut[t] ELSE None

Device(t) == IF Number[t] # None THEN DeviceByNumber(Id(Number[t])) ELSE DeviceByName(t)

IndexOf(S) == IF S = {} THEN 0 ELSE (CHOOSE l \in S : TRUE).index
BridgeByNumber(T, i) == IndexOf({l \in Bridges(T) : l.index = i})
BridgeByName(T, t) == IndexOf({l \in Bridges(T) : l.name = t})

Bridge(T, t) ==
    IF Number[t] # None THEN BridgeByNumber(T, Id(Number[t])) ELSE BridgeByName(T, t)

-----------------------------------------------------------------------------
(* search_interface().                                                     *)

\* Where an argument that names no device leads: out; mutant: to the question.
BadArgumentAsks == "ask_device"
BadArgument == "refused"

ListDevices ==
    /\ at = "search_interface"
    /\ selected' = IF arg = None THEN None ELSE DeviceByName(arg)
    /\ at' = IF devices = <<>> THEN "refused"
             ELSE IF arg = None THEN "ask_device"
             ELSE IF selected' = None THEN BadArgument ELSE "search_bridge"
    /\ UNCHANGED <<arg, hint, devices, links, left, word, master>>

EndOfInput ==
    /\ at \in {"ask_device", "ask_bridge"} /\ left = None
    /\ at' = "refused"
    /\ UNCHANGED <<arg, hint, devices, links, left, word, selected, master>>

\* An answer that fits nothing is followed by the question again.
AnswerDevice ==
    /\ at = "ask_device" /\ Scan
    /\ selected' = Device(word')
    /\ at' = IF selected' = None THEN at ELSE "search_bridge"
    /\ UNCHANGED <<arg, hint, devices, links, master>>

-----------------------------------------------------------------------------
(* search_bridge().                                                        *)

\* An answer or a hint with the bridge it stands for.
Choose(b, otherwise) ==
    /\ master' = b
    /\ at' = IF b = 0 THEN otherwise ELSE "ready"

ListBridges ==
    /\ at = "search_bridge"
    /\ \/ at' = "refused" /\ UNCHANGED <<links, master>>
       \/ \E T \in LinkTables :
            /\ links' = T
            /\ IF hint = None THEN at' = "ask_bridge" /\ UNCHANGED master
               ELSE Choose(BridgeByName(T, hint), "refused")
    /\ UNCHANGED <<arg, hint, devices, left, word, selected>>

AnswerBridge ==
    /\ at = "ask_bridge" /\ Scan
    /\ Choose(Bridge(links, word'), at)
    /\ UNCHANGED <<arg, hint, devices, links, selected>>

\* What main() does by itself, and what it does with an answer.
Lists == ListDevices \/ ListBridges
Answers == AnswerDevice \/ AnswerBridge \/ EndOfInput

-----------------------------------------------------------------------------
\* Whatever is typed, and however scanf() splits it, only a device and a bridge that
\* were printed are picked: a number, as long as it fits into an unsigned, picks what
\* was printed with it, and one that does not is reduced but never leads out of the
\* list; anything else picks only what it names.
PicksAsPrinted ==
    [][ /\ at = "ask_device" /\ at' = "search_bridge" =>
             /\ \E i \in DOMAIN devices : selected' = Cut[devices[i]]
             /\ IF Number[word'] = None THEN selected' = word'
                ELSE Number[word'] < Word => selected' = Cut[devices[Number[word'] + 1]]
        /\ at = "ask_bridge" /\ at' = "ready" =>
             /\ \E l \in Bridges(links) : l.index = master'
             /\ IF Number[word'] = None
                THEN \E l \in links : l.name = word' /\ l.index = master'
                ELSE Number[word'] < Word => master' = Number[word']
      ]_selectVars

=============================================================================
