--------------------------- MODULE DescriptorTemplate ---------------------------
(* vkUpdateDescriptorSetWithTemplate passes handles in memory whose layout only   *)
(* the template says. Capture replaces them by object numbers, replay puts its    *)
(* own handles in (rewrite_descriptor_update_template_data in hardcode_write.cpp  *)
(* and hardcode_read.cpp). Memory is a sequence of words; offsets are from 0.     *)
EXTENDS Integers, Sequences, FiniteSets, SequencesExt

CONSTANTS
    Templates,      \* sequences of [type, offset, stride, count]
    HandleValues,   \* handles of the capturing driver, reused after a destroy
    MaxNumbered     \* bound: objects created

VARIABLES
    numbered,   \* objects in the order of their creation: class, handle, alive
    template,   \* trackeddescriptorupdatetemplate: entries and data_size
    update      \* the last update: the memory, the packet, the memory on replay, what was touched

tmvars == <<numbered, template, update>>

Garbage == 77       \* what words that nothing reads hold
None == [data |-> <<>>, packet |-> <<>>, replayed |-> <<>>, touched |-> {}, ok |-> TRUE]

TmInit ==
    /\ numbered = <<>>
    /\ template = [entries |-> <<>>, data_size |-> 0]
    /\ update = None

--------------------------------------------------------------------------------
(* Layout *)

descriptor_update_template_entry_size(type) ==
    CASE type \in {"sampler", "combined", "image", "buffer"} -> 3
      [] OTHER -> 1     \* a view, an acceleration structure, a byte of an inline block

Stride(entry) ==
    IF entry.stride = 0 THEN descriptor_update_template_entry_size(entry.type) ELSE entry.stride

\* Mutant: the elements lie next to one another.
ElementsPacked(entry) ==
    {entry.offset + i * descriptor_update_template_entry_size(entry.type) : i \in 0..(entry.count - 1)}
Elements(entry) == {entry.offset + i * Stride(entry) : i \in 0..(entry.count - 1)}

\* Words of an element that hold handles, with the class of object.
HandlesIn(type) ==
    CASE type = "sampler"  -> {<<0, "VkSampler">>}
      [] type = "combined" -> {<<0, "VkSampler">>, <<1, "VkImageView">>}
      [] type = "image"    -> {<<1, "VkImageView">>}
      [] type = "buffer"   -> {<<0, "VkBuffer">>}
      [] type = "texel"    -> {<<0, "VkBufferView">>}
      [] OTHER             -> {}

\* Mutant: one stride too few is counted.
descriptor_update_template_data_sizeShort(entries) ==
    FoldLeft(LAMBDA most, e : LET total == e.offset + Stride(e) * (e.count - 1)
                              IN IF e.count > 0 /\ total > most THEN total ELSE most, 0, entries)
descriptor_update_template_data_size(entries) ==
    FoldLeft(LAMBDA most, e :
                LET total == e.offset + Stride(e) * (e.count - 1) + descriptor_update_template_entry_size(e.type)
                IN IF e.count > 0 /\ total > most THEN total ELSE most,
             0, entries)

Places(entry, elements) == {<<w + h[1], h[2]>> : w \in elements, h \in HandlesIn(entry.type)}

\* What a driver reads, from the specification of Vulkan.
Read(entries) == UNION {Places(entries[i], {entries[i].offset + n * Stride(entries[i]) : n \in 0..(entries[i].count - 1)}) :
                        i \in DOMAIN entries}

--------------------------------------------------------------------------------
(* The two rewrites, entry after entry, in place *)

Alive(class) == {o \in DOMAIN numbered : numbered[o].class = class /\ numbered[o].alive}
index_or_null(class, h) ==
    IF h = 0 THEN 0 ELSE LET found == {o \in Alive(class) : numbered[o].handle = h}
                         IN IF found = {} THEN -1 ELSE CHOOSE o \in found : TRUE
ReplayHandle(o) == 100 + o      \* external: the replaying driver
at(class, n) ==
    IF n = 0 THEN 0 ELSE IF n \in Alive(class) THEN ReplayHandle(n) ELSE -1

Rewritten(lookup, entry, data) ==
    [w \in DOMAIN data |->
        LET here == {p \in Places(entry, Elements(entry)) : p[1] + 1 = w}
        IN IF here = {} THEN data[w] ELSE LET class == (CHOOSE p \in here : TRUE)[2]
                IN IF lookup = "index_or_null" THEN index_or_null(class, data[w]) ELSE at(class, data[w])]

capture_rewrite_descriptor_update_template_data(data) ==
    FoldLeft(LAMBDA d, e : Rewritten("index_or_null", e, d), SubSeq(data, 1, template.data_size), template.entries)
replay_rewrite_descriptor_update_template_data(packet) ==
    FoldLeft(LAMBDA d, e : Rewritten("at", e, d), packet, template.entries)

\* template_entry_data for the handlers of vkUpdateDescriptorSets.
handle_descriptor_update_template(data) ==
    UNION {{index_or_null(p[2], data[p[1] + 1]) : p \in Places(template.entries[i], Elements(template.entries[i]))} :
           i \in DOMAIN template.entries} \ {0}

--------------------------------------------------------------------------------
(* Calls *)

CreateNumbered(class, h) ==
    /\ Len(numbered) < MaxNumbered
    /\ \A o \in Alive(class) : numbered[o].handle # h
    /\ numbered' = Append(numbered, [class |-> class, handle |-> h, alive |-> TRUE])
    /\ UNCHANGED <<template, update>>

DestroyNumbered(o) ==
    /\ numbered[o].alive
    /\ numbered' = [numbered EXCEPT ![o].alive = FALSE]
    /\ update' = None
    /\ UNCHANGED template

\* trace_post_vkCreateDescriptorUpdateTemplate; the callback of replay stores the same.
vkCreateDescriptorUpdateTemplate(entries) ==
    /\ template' = [entries |-> entries, data_size |-> descriptor_update_template_data_size(entries)]
    /\ update' = None
    /\ UNCHANGED numbered

\* choice: the live object, or 0, for every place that is read.
vkUpdateDescriptorSetWithTemplate(choice) ==
    LET size == 1 + FoldSet(LAMBDA p, n : IF p[1] > n THEN p[1] ELSE n, 0, Read(template.entries))
        data == [w \in 1..(size + 2) |->
                    LET here == {p \in Read(template.entries) : p[1] + 1 = w}
                    IN IF here = {} THEN Garbage
                       ELSE LET o == choice[CHOOSE p \in here : TRUE] IN IF o = 0 THEN 0 ELSE numbered[o].handle]
        packet == capture_rewrite_descriptor_update_template_data(data)
        replayed == replay_rewrite_descriptor_update_template_data(packet)
    IN /\ template.entries # <<>>
       /\ update' = [data |-> data, packet |-> packet, replayed |-> replayed,
                     touched |-> handle_descriptor_update_template(data),
                     ok |-> \A w \in DOMAIN packet : packet[w] # -1 /\ replayed[w] # -1]
       /\ UNCHANGED <<numbered, template>>

HandleChoices ==
    {c \in [Read(template.entries) -> {o \in DOMAIN numbered : numbered[o].alive} \cup {0}] :
        \A p \in DOMAIN c : c[p] \in Alive(p[2]) \cup {0}}

TmNext ==
    \/ \E c \in {"VkSampler", "VkImageView", "VkBuffer", "VkBufferView"}, h \in HandleValues : CreateNumbered(c, h)
    \/ \E o \in DOMAIN numbered : DestroyNumbered(o)
    \/ \E t \in Templates : vkCreateDescriptorUpdateTemplate(t)
    \/ /\ update = None
       /\ \E choice \in HandleChoices : vkUpdateDescriptorSetWithTemplate(choice)

--------------------------------------------------------------------------------
(* Properties *)

Meant(class, h) == {o \in Alive(class) : numbered[o].handle = h}

(* The replaying driver reads the handle of the object that the application named,*)
(* or none where it named none; every word it reads is in the packet, and nothing *)
(* is looked up that the application need not have set                            *)
(* (rewrite_descriptor_update_template_data on both sides).                       *)
TemplateHandlesReplayed ==
    update # None =>
        /\ update.ok
        /\ \A p \in Read(template.entries) :
            /\ p[1] + 1 \in DOMAIN update.replayed
            /\ LET h == update.data[p[1] + 1]
               IN IF h = 0 THEN update.replayed[p[1] + 1] = 0
                  ELSE \A o \in Meant(p[2], h) : update.replayed[p[1] + 1] = ReplayHandle(o)

(* Capture tracks exactly the objects that the driver reads from the memory       *)
(* (handle_descriptor_update_template).                                           *)
TemplateObjectsTouched ==
    update # None =>
        update.touched = UNION {Meant(p[2], update.data[p[1] + 1]) : p \in Read(template.entries)}

(* The data of an update by template means the same objects to capture, to *)
(* replay and to the driver.                                               *)
TemplateReplayed == TemplateHandlesReplayed /\ TemplateObjectsTouched
====
