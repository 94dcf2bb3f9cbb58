---------------------------- MODULE DynamicGadget ----------------------------
(***************************************************************************)
(* The dynamic USB gadget, drivers/usb/gadget/dynamic.c, with the parts of *)
(* composite.c, f_mass_storage.c and f_acm.c it works through.  The        *)
(* initcalls register the gadget and its functions, which are bound once   *)
(* all of them are there; userspace then enables and disables functions    *)
(* through sysfs, and every change makes the host enumerate again.         *)
(* The controller and the host are external.  The initcalls, the writers   *)
(* and the host interleave: the host's requests arrive as interrupts, and  *)
(* the kernel is preemptible.                                              *)
(***************************************************************************)
EXTENDS Integers, Sequences, SequencesExt, FiniteSets

CONSTANTS
    Functions,      \* the board's list of functions, in order
    Interfaces,     \* the number of interfaces of each function
    MaxInterfaces,  \* MAX_CONFIG_INTERFACES
    Acm,            \* functions of the ACM kind: association descriptor, tty port
    Products,       \* the board's products: vendor (0 if none), product, functions
    Default,        \* vendor and product of a board's device that is no product
    Writers,        \* tasks that write to the enable attributes
    MaxWrites,      \* bound: writes
    MaxPlugs        \* bound: times the cable is plugged in

Names == Range(Functions)

ASSUME GadgetAssumption ==
    /\ Functions \in Seq(Names) /\ IsInjective(Functions)
    /\ Interfaces \in [Names -> Nat \ {0}]
    /\ MaxInterfaces \in Nat
    /\ Acm \subseteq Names
    /\ \A i \in DOMAIN Products : Products[i].functions \subseteq Names
    /\ MaxWrites \in Nat /\ MaxPlugs \in Nat

VARIABLES
    registered,     \* functions registered with dynamic_register_function
    config,         \* dev->config is set
    bound,          \* _are_functions_bound
    boot,           \* what the initcalls are doing, and to which function
    attributes,     \* functions that have an enable attribute
    functions,      \* config->functions, a list
    interface,      \* config->interface: the function that holds each id, with the one
                    \* of its interfaces for which its bind noted the id
    ready,          \* functions that have their descriptors
    freed,          \* functions whose bind failed: memory that was freed
    speeds,         \* config->fullspeed and highspeed
    ports,          \* gserial_setup has made the tty port
    disabled,       \* functions whose disabled flag is set
    class,          \* cdev->desc.bDeviceClass
    ids,            \* cdev->desc.idVendor and idProduct
    writer,         \* what each writer is doing
    pullup,         \* the controller's pull-up
    speed,          \* gadget->speed is known
    current,        \* cdev->config is set
    active,         \* functions whose data interface was set up by set_alt
    plugged,        \* the cable is plugged in
    host,           \* how far the host's enumeration is, and what it has read
    writes, plugs,  \* history: numbers of writes and of plugs
    oops,           \* history: the first access to missing or freed memory
    early,          \* history: this enumeration began before the initcalls were over
    written,        \* history: some function was enabled or disabled
    overlapped      \* history: two writers were at it since one was alone

setup == <<registered, config, bound, boot, attributes, functions, interface, ready, freed, speeds, ports>>
desc == <<class, ids>>
wire == <<pullup, speed, current, active, plugged, host>>
history == <<early, written, overlapped>>
vars == <<setup, disabled, desc, writer, wire, writes, plugs, oops, history>>

Unconnected == [state |-> "detached", class |-> "none", ids |-> Default, configs |-> 0, map |-> << >>]
AtRest == [pc |-> "idle", multi |-> FALSE, ids |-> Default]

Init ==
    /\ registered = {} /\ config = FALSE /\ bound = FALSE
    /\ boot = [pc |-> "idle", via |-> "none", at |-> 0]
    /\ attributes = {} /\ functions = << >> /\ interface = << >>
    /\ ready = {} /\ freed = {} /\ speeds = FALSE /\ ports = FALSE
    /\ disabled = {}
    /\ class = "per_interface" /\ ids = Default
    /\ writer = [w \in Writers |-> AtRest]
    /\ pullup = FALSE /\ speed = FALSE /\ current = FALSE /\ active = {}
    /\ plugged = FALSE /\ host = Unconnected
    /\ writes = 0 /\ plugs = 0
    /\ oops = "none"
    /\ early = FALSE /\ written = FALSE /\ overlapped = FALSE

-----------------------------------------------------------------------------

\* product_matches_functions: a bound function is enabled if and only if the product has it.
product_matches_functions(p, fs, off) == \A f \in Range(fs) : f \in p.functions <=> f \notin off

\* The first of the products with a number in found, or else the default.
FirstProduct(found) ==
    IF found = {} THEN Default ELSE Products[CHOOSE i \in found : \A j \in found : i <= j]

Matching(fs, off) == {i \in DOMAIN Products : product_matches_functions(Products[i], fs, off)}

get_vendor_id(fs, off) == FirstProduct({i \in Matching(fs, off) : Products[i].vendor # 0}).vendor

get_product_id(fs, off) == FirstProduct(Matching(fs, off)).product

Ids(fs, off) == [vendor |-> get_vendor_id(fs, off), product |-> get_product_id(fs, off)]

\* update_dev_desc's test: several functions are enabled, one of the ACM kind.
Multi(fs, off) ==
    LET on == Range(fs) \ off IN Cardinality(on) > 1 /\ on \cap Acm # {}

\* A table of interfaces with those of f added to it, each with its place in f.
Numbered(f, table) == table \o [i \in 1..Interfaces[f] |-> <<f, i>>]
Of(table) == {e[1] : e \in Range(table)}

\* What bind's calls of usb_interface_id make of the table, until one of them finds
\* no id left: the function is put there, and bind notes the id in ctrl_id, data_id
\* or interface_number.
usb_interface_id(f, table) ==
    IF Len(table) + Interfaces[f] <= MaxInterfaces THEN Numbered(f, table)
    ELSE table \o [i \in 1..(MaxInterfaces - Len(table)) |-> <<f, i>>]

\* config_buf numbers anew the interfaces of the functions it describes: those of
\* the list fs that are not off and have their descriptors.
Described(fs, off, rd) ==
    FoldLeft(LAMBDA map, f : IF f \in off \/ f \notin rd THEN map ELSE Numbered(f, map), << >>, fs)
config_buf == Described(functions, disabled, ready)

-----------------------------------------------------------------------------

Done == [pc |-> "idle", via |-> "none", at |-> 0]
Booted == config /\ registered = Names /\ boot.pc = "idle"
Name == Functions[boot.at]

\* bind_functions goes on to function i, or ends; composite_bind then has the
\* descriptor to write.
Onward(i, via) ==
    IF i <= Len(Functions) THEN [pc |-> "add", via |-> via, at |-> i]
    ELSE IF via = "probe" THEN [pc |-> "desc", via |-> via, at |-> 0] ELSE Done

\* should_bind_functions, for the list of functions and the configuration as they become.
should_bind_functions(conf, names) == conf /\ ~bound /\ Names \subseteq names

\* bind_functions: its loop begins.  The flag is set at its end; nobody looks
\* at it before, for the initcalls are one task.
bind_functions(via) == boot' = Onward(1, via) /\ bound' = TRUE

\* dynamic_probe, composite_bind and dynamic_bind up to the configuration.
dynamic_probe ==
    /\ boot.pc = "idle" /\ ~config
    /\ config' = TRUE
    /\ IF should_bind_functions(TRUE, registered)
       THEN bind_functions("probe")
       ELSE boot' = [pc |-> "desc", via |-> "probe", at |-> 0] /\ UNCHANGED bound
    /\ UNCHANGED <<registered, attributes, functions, interface, ready, freed, speeds, ports>>
    /\ UNCHANGED <<disabled, desc, writer, wire, writes, plugs, oops, history>>

dynamic_register_function(f) ==
    /\ boot.pc = "idle"
    /\ f \notin registered
    /\ registered' = registered \cup {f}
    /\ IF should_bind_functions(config, registered') THEN bind_functions("register")
       ELSE UNCHANGED <<boot, bound>>
    /\ UNCHANGED <<config, attributes, functions, interface, ready, freed, speeds, ports>>
    /\ UNCHANGED <<disabled, desc, writer, wire, writes, plugs, oops, history>>

\* acm_bind_config makes a device of no class a communication device; then
\* usb_add_function creates the attribute and lists the function, and bind takes
\* the interface ids it can get.  Memory may be short before the attribute is
\* created.
usb_add_function ==
    /\ boot.pc = "add"
    /\ class' = IF Name \in Acm /\ class = "per_interface" THEN "comm" ELSE class
    /\ \/ /\ attributes' = attributes \cup {Name}
          /\ functions' = Append(functions, Name)
          /\ interface' = usb_interface_id(Name, interface)
          /\ boot' = [boot EXCEPT !.pc = "bind"]
       \/ /\ boot' = Onward(boot.at + 1, boot.via)
          /\ UNCHANGED <<attributes, functions, interface>>
    /\ UNCHANGED <<registered, config, bound, ready, freed, speeds, ports, disabled, ids, writer, wire>>
    /\ UNCHANGED <<writes, plugs, oops, history>>

\* The function being bound has all its interface ids.
AllIds == <<Name, Interfaces[Name]>> \in Range(interface)

\* The end of usb_add_function: bind has its ids, finds its endpoints and copies the
\* descriptors, or fails, is taken off the list, where it is the last, and freed by
\* its bind_config; bind_functions does not look at the result.
usb_add_function_end ==
    /\ boot.pc = "bind"
    /\ \/ /\ AllIds
          /\ ready' = ready \cup {Name}
          /\ speeds' = TRUE
          /\ boot' = IF Name \in Acm THEN [boot EXCEPT !.pc = "port"] ELSE Onward(boot.at + 1, boot.via)
          /\ UNCHANGED <<functions, freed>>
       \/ /\ functions' = Front(functions)
          /\ freed' = freed \cup {Name}
          /\ boot' = Onward(boot.at + 1, boot.via)
          /\ UNCHANGED <<ready, speeds>>
    /\ UNCHANGED <<registered, config, bound, attributes, interface, ports, disabled, desc, writer, wire>>
    /\ UNCHANGED <<writes, plugs, oops, history>>

\* acm_function_bind_config makes the tty port once the function is in the
\* configuration, and does not look whether that failed.
gserial_setup ==
    /\ boot.pc = "port"
    /\ ports' \in BOOLEAN
    /\ boot' = Onward(boot.at + 1, boot.via)
    /\ UNCHANGED <<registered, config, bound, attributes, functions, interface, ready, freed, speeds>>
    /\ UNCHANGED <<disabled, desc, writer, wire, writes, plugs, oops, history>>

\* The end of dynamic_bind and of composite_bind, which copies device_desc and
\* with it the class; then the controller is started.
dynamic_bind ==
    /\ boot.pc = "desc"
    /\ ids' = Ids(functions, disabled)
    /\ class' = "per_interface"
    /\ pullup' = TRUE
    /\ boot' = Done
    /\ UNCHANGED <<registered, config, bound, attributes, functions, interface, ready, freed, speeds, ports>>
    /\ UNCHANGED <<disabled, writer, speed, current, active, plugged, host, writes, plugs, oops, history>>

Initcalls ==
    \/ dynamic_probe \/ usb_add_function \/ usb_add_function_end \/ gserial_setup \/ dynamic_bind
    \/ \E f \in Names : dynamic_register_function(f)

-----------------------------------------------------------------------------

Alone(w) == \A x \in Writers \ {w} : writer[x].pc = "idle"

\* enable_store and dynamic_enable_function, for a value that differs from the
\* flag: usb_function_set_enabled.  What sscanf cannot read leaves any value.
\* The attribute of a function whose bind failed is still there.
enable_store(w, f) ==
    /\ Booted
    /\ writer[w].pc = "idle"
    /\ f \in attributes
    /\ writes < MaxWrites
    /\ writes' = writes + 1
    /\ IF f \in freed
       THEN oops' = "freed" /\ UNCHANGED <<disabled, writer, written, overlapped>>
       ELSE /\ disabled' = IF f \in disabled THEN disabled \ {f} ELSE disabled \cup {f}
            /\ writer' = [writer EXCEPT ![w].pc = "class"]
            /\ written' = TRUE
            /\ overlapped' = ~Alone(w)
            /\ UNCHANGED oops
    /\ UNCHANGED <<setup, desc, wire, plugs, early>>

\* update_dev_desc begins with the class that is not of a composite device and
\* goes through the functions, then writes what it has found.
update_dev_desc(w) ==
    /\ writer[w].pc = "class"
    /\ class' = "per_interface"
    /\ writer' = [writer EXCEPT ![w].pc = "multi", ![w].multi = Multi(functions, disabled)]
    /\ UNCHANGED <<setup, disabled, ids, wire, writes, plugs, oops, history>>

update_dev_desc_end(w) ==
    /\ writer[w].pc = "multi"
    /\ class' = IF writer[w].multi THEN "misc" ELSE class
    /\ writer' = [writer EXCEPT ![w].pc = "match"]
    /\ UNCHANGED <<setup, disabled, ids, wire, writes, plugs, oops, history>>

\* dynamic_enable_function looks up the ids, then writes them.
MatchIds(w) ==
    /\ writer[w].pc = "match"
    /\ writer' = [writer EXCEPT ![w].pc = "ids", ![w].ids = Ids(functions, disabled)]
    /\ UNCHANGED <<setup, disabled, desc, wire, writes, plugs, oops, history>>

\* Mutant of StoreIds: the descriptor's own copy is not written.
StoreNoIds(w) ==
    /\ writer[w].pc = "ids"
    /\ writer' = [writer EXCEPT ![w].pc = "reset"]
    /\ UNCHANGED <<setup, disabled, desc, wire, writes, plugs, oops, history>>

StoreIds(w) ==
    /\ writer[w].pc = "ids"
    /\ ids' = writer[w].ids
    /\ writer' = [writer EXCEPT ![w].pc = "reset"]
    /\ UNCHANGED <<setup, disabled, class, wire, writes, plugs, oops, history>>

\* Mutant of usb_composite_force_reset: only a configured gadget is reset.
ResetConfigured(w) ==
    /\ writer[w].pc = "reset"
    /\ IF current
       THEN /\ pullup' = FALSE
            /\ host' = Unconnected
            /\ writer' = [writer EXCEPT ![w].pc = "connect"]
       ELSE /\ writer' = [writer EXCEPT ![w] = AtRest]
            /\ UNCHANGED <<pullup, host>>
    /\ UNCHANGED <<setup, disabled, desc, speed, current, active, plugged, writes, plugs, oops, history>>

\* usb_composite_force_reset: a gadget the host knows of is disconnected, and
\* connected again when the writer has slept.
usb_composite_force_reset(w) ==
    /\ writer[w].pc = "reset"
    /\ IF speed
       THEN /\ pullup' = FALSE
            /\ host' = Unconnected
            /\ writer' = [writer EXCEPT ![w].pc = "connect"]
       ELSE /\ writer' = [writer EXCEPT ![w] = AtRest]
            /\ UNCHANGED <<pullup, host>>
    /\ UNCHANGED <<setup, disabled, desc, speed, current, active, plugged, writes, plugs, oops, history>>

\* Mutant of usb_gadget_connect: of several writers only the last connects.
ConnectLast(w) ==
    /\ writer[w].pc = "connect"
    /\ pullup' = Alone(w)
    /\ writer' = [writer EXCEPT ![w] = AtRest]
    /\ UNCHANGED <<setup, disabled, desc, speed, current, active, plugged, host, writes, plugs, oops, history>>

usb_gadget_connect(w) ==
    /\ writer[w].pc = "connect"
    /\ pullup' = TRUE
    /\ writer' = [writer EXCEPT ![w] = AtRest]
    /\ UNCHANGED <<setup, disabled, desc, speed, current, active, plugged, host, writes, plugs, oops, history>>

Write(w) ==
    \/ update_dev_desc(w) \/ update_dev_desc_end(w) \/ MatchIds(w) \/ StoreIds(w)
    \/ usb_composite_force_reset(w) \/ usb_gadget_connect(w)

-----------------------------------------------------------------------------

\* The cable.  Unplugging it, and a reset of a gadget that has a speed, reaches
\* composite_disconnect and with it reset_config.
composite_disconnect == current' = FALSE /\ active' = {}

Plug ==
    /\ ~plugged
    /\ plugs < MaxPlugs
    /\ plugged' = TRUE
    /\ plugs' = plugs + 1
    /\ UNCHANGED <<setup, disabled, desc, writer, pullup, speed, current, active, host, writes, oops, history>>

Unplug ==
    /\ plugged
    /\ plugged' = FALSE
    /\ host' = Unconnected
    /\ speed' = FALSE
    /\ composite_disconnect
    /\ UNCHANGED <<setup, disabled, desc, writer, pullup, writes, plugs, oops, history>>

\* The host sees the pull-up and resets the gadget.
HostReset ==
    /\ plugged /\ pullup
    /\ host.state = "detached"
    /\ host' = [Unconnected EXCEPT !.state = "default"]
    /\ speed' = TRUE
    /\ composite_disconnect
    /\ early' = ~Booted
    /\ UNCHANGED <<setup, disabled, desc, writer, pullup, plugged, writes, plugs, oops, written, overlapped>>

\* composite_setup for a device descriptor, with count_configs.
GetDeviceDescriptor ==
    /\ host.state = "default"
    /\ host' = [host EXCEPT !.state = "addressed", !.class = class, !.ids = ids,
                            !.configs = IF speeds THEN 1 ELSE 0]
    /\ UNCHANGED <<setup, disabled, desc, writer, pullup, speed, current, active, plugged, writes, plugs, oops, history>>

\* composite_setup for a configuration descriptor; a host that was told of no
\* configuration leaves the gadget alone.
GetConfigDescriptor ==
    /\ host.state = "addressed"
    /\ host' = IF host.configs = 0 THEN [host EXCEPT !.state = "useless"]
               ELSE [host EXCEPT !.state = "described", !.map = config_buf]
    /\ UNCHANGED <<setup, disabled, desc, writer, pullup, speed, current, active, plugged, writes, plugs, oops, history>>

\* Mutant of set_config: functions that are disabled are set up too.
SetAll ==
    /\ host.state = "described"
    /\ host' = [host EXCEPT !.state = "configured"]
    /\ current' = TRUE
    /\ active' = Of(interface) \ (IF ports THEN {} ELSE Acm)
    /\ oops' = IF Of(interface) \cap freed # {} THEN "freed"
               ELSE IF ~(Of(interface) \subseteq ready) THEN "unready" ELSE oops
    /\ UNCHANGED <<setup, disabled, desc, writer, pullup, speed, plugged, writes, plugs, history>>

\* set_config goes through the bound interface ids and reads the flag of each
\* function, its descriptors if it is enabled, and calls set_alt, which has a
\* tty port to connect or does without.
set_config ==
    /\ host.state = "described"
    /\ host' = [host EXCEPT !.state = "configured"]
    /\ current' = TRUE
    /\ active' = Of(interface) \ (disabled \cup (IF ports THEN {} ELSE Acm))
    /\ oops' = IF Of(interface) \cap freed # {} THEN "freed"
               ELSE IF ~(Of(interface) \subseteq ready \cup disabled) THEN "unready" ELSE oops
    /\ UNCHANGED <<setup, disabled, desc, writer, pullup, speed, plugged, writes, plugs, history>>

\* Mutant of Answers: the number is not compared.
AnswersAnyNumber(g, f, i) ==
    /\ g \in Acm <=> f \in Acm
    /\ g \in Acm \/ g \in active

\* acm_setup and fsg_setup: g takes a class request that its kind knows, as f's
\* kind does, if the number i is the id noted for its first interface; mass storage
\* only when it is set up.
Answers(g, f, i) ==
    /\ g \in Acm <=> f \in Acm
    /\ i \in DOMAIN interface /\ interface[i] = <<g, 1>>
    /\ g \in Acm \/ g \in active

\* dynamic_setup_config offers a request to the functions in the order of their ids.
dynamic_setup_config(f, i) ==
    LET willing == {k \in DOMAIN interface : Answers(interface[k][1], f, i)}
    IN {interface[k][1] : k \in {x \in willing : \A y \in willing : x <= y}}

\* composite_setup: who takes a class request, of the kind f knows, for interface
\* number i.  The function with that id is asked, and if it refuses, all are.
composite_setup(f, i) ==
    IF i \in DOMAIN interface /\ Answers(interface[i][1], f, i) THEN {interface[i][1]}
    ELSE dynamic_setup_config(f, i)

\* composite_setup for SET_INTERFACE: the function with that id is told to set up
\* the interface it noted the number for, as acm_set_alt finds it.
set_alt(i) == {interface[k] : k \in {i} \cap DOMAIN interface}

HostStep == HostReset \/ GetDeviceDescriptor \/ GetConfigDescriptor \/ set_config

-----------------------------------------------------------------------------

Next ==
    /\ oops = "none"
    /\ \/ Initcalls
       \/ \E w \in Writers : Write(w) \/ \E f \in Names : enable_store(w, f)
       \/ Plug \/ Unplug \/ HostStep

Spec == Init /\ [][Next]_vars

\* The initcalls and the writers go on, and so does a host that is plugged in.
FairSpec ==
    /\ Spec
    /\ WF_vars(oops = "none" /\ Initcalls)
    /\ \A w \in Writers : WF_vars(oops = "none" /\ Write(w))
    /\ WF_vars(oops = "none" /\ HostStep)

-----------------------------------------------------------------------------

Classes == {"none", "per_interface", "comm", "misc"}

\* Every variable keeps its type.
TypeOK ==
    /\ registered \subseteq Names /\ attributes \subseteq registered
    /\ config \in BOOLEAN /\ bound \in BOOLEAN /\ speeds \in BOOLEAN /\ ports \in BOOLEAN
    /\ boot.pc \in {"idle", "add", "bind", "port", "desc"} /\ boot.at \in 0..Len(Functions)
    /\ Range(functions) \subseteq attributes /\ IsInjective(functions)
    /\ Of(interface) \subseteq attributes
    /\ ready \subseteq attributes /\ freed \subseteq attributes \ ready
    /\ disabled \subseteq ready
    /\ class \in Classes /\ host.class \in Classes
    /\ \A w \in Writers : writer[w].pc \in {"idle", "class", "multi", "match", "ids", "reset", "connect"}
    /\ pullup \in BOOLEAN /\ speed \in BOOLEAN /\ current \in BOOLEAN /\ plugged \in BOOLEAN
    /\ active \subseteq attributes
    /\ host.state \in {"detached", "default", "addressed", "described", "configured", "useless"}
    /\ Of(host.map) \subseteq ready
    /\ writes \in 0..MaxWrites /\ plugs \in 0..MaxPlugs
    /\ oops \in {"none", "freed", "unready"}

\* No write is under way.
Quiet == Booted /\ \A w \in Writers : writer[w].pc = "idle"

\* What the host has read is what the gadget would answer now, once no write is
\* under way: usb_composite_force_reset leaves no host with old descriptors,
\* wherever in its enumeration the write met it.  The exception is a host that
\* came before the functions were bound: binding them resets nothing.
HostUpToDate ==
    Quiet /\ ~early =>
        /\ host.state \in {"addressed", "described", "configured"} =>
               host.class = class /\ host.ids = ids /\ host.configs = (IF speeds THEN 1 ELSE 0)
        /\ host.state \in {"described", "configured"} => host.map = config_buf

\* The descriptor is the one that the enabled functions call for, once no write
\* is under way, unless two writers overlapped: nothing keeps one from writing
\* what it decided before the other's change.  Before the first write the ids are
\* those of the functions bound before the gadget was started, and the class of
\* functions bound after it that of the ACM function alone.
DescriptorAgrees ==
    Quiet /\ ~overlapped =>
        IF written
        THEN /\ class = (IF Multi(functions, disabled) THEN "misc" ELSE "per_interface")
             /\ ids = Ids(functions, disabled)
        ELSE \/ class = "per_interface" /\ ids = Ids(functions, {})
             \/ class = (IF Acm = {} THEN "per_interface" ELSE "comm") /\ ids = Ids(<< >>, {})

\* Of a request for an interface that the host was told belongs to f, f takes a class
\* request, and sets up that interface on SET_INTERFACE, if and only if no function
\* bound before f is disabled.  config_buf numbers the enabled functions anew, and f
\* compares the number with the ids its bind noted: with mass storage off the host's
\* request for the data interface of ACM finds ACM, which takes it for its control
\* interface, and asking all the functions finds none that knows the number.
RequestsReach ==
    Quiet /\ ~early /\ host.state = "configured" /\ oops = "none" =>
        \A i \in DOMAIN host.map : \E k \in DOMAIN interface :
            LET f == host.map[i][1]
                unmoved == \A j \in 1..(k - 1) : interface[j][1] \notin disabled
            IN /\ interface[k] = host.map[i]
               /\ set_alt(i) = {host.map[i]} <=> unmoved
               /\ host.map[i][2] = 1 => (composite_setup(f, i) = {f} <=> unmoved)

\* Once the host has configured the gadget and no write is under way, exactly the
\* functions it was told of run: none that userspace has disabled, and all others.
\* A serial port needs its tty as well, which the host may have come too early for.
\* Configuring it crashes the kernel only if a function failed to bind, or the
\* functions were being bound.
ActiveAsDescribed ==
    Quiet /\ ~early /\ host.state = "configured" =>
        IF oops = "none" THEN active = Of(host.map) \ (IF ports THEN {} ELSE Acm)
                         ELSE freed # {}

\* A host that stays plugged in gets to see every function that stays enabled,
\* unless it came before the functions were bound or the kernel has crashed.
HostFollows ==
    \A f \in Names :
        (Booted /\ f \in ready) ~>
            \/ f \in disabled \/ ~plugged \/ early \/ oops # "none"
            \/ host.state = "configured" /\ f \in Of(host.map)
==============================================================================
