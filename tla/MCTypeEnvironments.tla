-------------------------- MODULE MCTypeEnvironments --------------------------
(* Instances of TypeEnvironments for TLC: two packages, the second of which is *)
(* documented under compiler options of its own.                              *)
EXTENDS TypeEnvironments

MCApis == <<"strict", "loose">>

\* Where the two packages are mounted.
Apart    == [strict |-> <<"strict">>, loose |-> <<"loose">>]
AtRoot   == [strict |-> <<"strict">>, loose |-> <<>>]
Together == [strict |-> <<"reference", "strict">>, loose |-> <<"reference", "loose">>]

MCRawConfig == [strict |-> "tsconfig.strict", loose |-> "tsconfig.loose"]
MCRaws == {"tsconfig.strict", "tsconfig.loose"}

\* Both packages have a page of one name, until neither has.
MCWords == {"Options"}
MCDocuments == [d \in {"old", "new"} |-> [p \in {"strict", "loose"} |-> IF d = "old" THEN MCWords ELSE {}]]

\* Two configurations, each under the name its tsconfig gives it.
MCSpellings == {"ESNext", "ES5"}
MCEncode == [s \in MCSpellings |-> IF s = "ES5" THEN "es5" ELSE "esnext"]
================================================================================
