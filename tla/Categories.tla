------------------------------ MODULE Categories ------------------------------
(***************************************************************************)
(* The categories pages are filed under: the built-in ones with each layer *)
(* of options merged over them, in the order they end up in the sidebar.   *)
(* A layer is a sequence of <<key, config>>; a config is a function on the *)
(* fields it gives.                                                        *)
(***************************************************************************)
EXTENDS Sequences, SequencesExt, TLC

CONSTANTS
  Layers,  \* adapter -> its layers of category options, weakest first
  None     \* no modifier, no category, no anchor, no base class

Adapters == {"rspress", "vitepress"}

Field(config, field, default) == IF field \in DOMAIN config THEN config[field] ELSE default

Preset(folder, kind) ==
  [title |-> folder, singular |-> folder, folder |-> folder, kinds |-> {kind},
   collapsible |-> TRUE, collapsed |-> TRUE]

\* DEFAULT_CATEGORIES, the same seven in both adapters.
DEFAULT_CATEGORIES ==
  << <<"classes", Preset("class", "Class")>>, <<"interfaces", Preset("interface", "Interface")>>,
     <<"functions", Preset("function", "Function")>>, <<"types", Preset("type", "TypeAlias")>>,
     <<"enums", Preset("enum", "Enum")>>, <<"variables", Preset("variable", "Variable")>>,
     <<"namespaces", Preset("namespace", "Namespace")>> >>

Required == {"title", "singular", "folder"}

\* Decoding an RSPress category drops what the schema does not name, a modifier
\* among it, and fills in how its sidebar section folds.
Decoded(config) ==
  [f \in DOMAIN config \ {"modifier"} |-> config[f]] @@ [collapsible |-> TRUE, collapsed |-> TRUE]

\* resolveCategories of VitePress: an override may be partial, a new category
\* needs its names and folder.
Accepted(keys, layer) ==
  SelectSeq(layer, LAMBDA e : e[1] \in keys \/ Required \subseteq DOMAIN e[2])

Keys(layer) == {e[1] : e \in ToSet(layer)}

\* mergeTwoCategories: an override keeps the place of what it overrides.
Merge(base, layer) ==
  LET over(key) == (CHOOSE e \in ToSet(layer) : e[1] = key)[2]
  IN [p \in DOMAIN base |->
        IF base[p][1] \notin Keys(layer) THEN base[p]
        ELSE <<base[p][1], over(base[p][1]) @@ base[p][2]>>]
     \o SelectSeq(layer, LAMBDA e : e[1] \notin Keys(base))

\* CategoryResolver.mergeCategories, and the one merge of VitePress.
Resolved(adapter) ==
  FoldLeft(LAMBDA base, layer :
             Merge(base, IF adapter = "vitepress" THEN Accepted(Keys(base), layer)
                         ELSE [p \in DOMAIN layer |-> <<layer[p][1], Decoded(layer[p][2])>>]),
           DEFAULT_CATEGORIES, Layers[adapter])

\* A category as pages and sidebar read it: `collapsed` is None for a section
\* that cannot be folded.
Category(config) ==
  [folder    |-> config["folder"],
   kinds     |-> Field(config, "kinds", {}),
   modifier  |-> Field(config, "modifier", None),
   collapsed |-> IF Field(config, "collapsible", TRUE) THEN Field(config, "collapsed", TRUE) ELSE None]

CategoriesOf(adapter) ==
  [c \in DOMAIN Resolved(adapter) |-> Category(Resolved(adapter)[c][2])]
================================================================================
