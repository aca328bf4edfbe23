------------------------------ MODULE ManifestIO ------------------------------
(***************************************************************************)
(* Manifests on disk and in memory (manifest_io.cpp, hashing.cpp): the JSON  *)
(* and the YAML reader, the conversion of a document into a manifest, the     *)
(* writer, the canonical form behind desired_sha256, and the three loaders.    *)
(*                                                                         *)
(* A document is [meta, scopes], a scope [array, attributes, elements]: whether *)
(* its _elements are an array, its _attributes, and the sequence of elements.    *)
(* meta, attributes and an element are functions from keys to values, and a      *)
(* value is a pair <<kind, text>> with the kind "string", "int", "bool", "null"  *)
(* or "composite".  In memory a manifest has the same shape with all fields      *)
(* filled in and texts for values; a scope that is not there is not in the       *)
(* domain of scopes.  Keys the program does not know are left out, and so is the  *)
(* list of changes of a changed managed file, which nothing looks at.           *)
(***************************************************************************)
EXTENDS FiniteSets, Naturals, Sequences

CONSTANTS
  Decimal,     \* text that std::stoll consumes to its end -> its numeral
  Wide,        \* the numerals outside of the range of int
  Extension,   \* path -> the format its extension stands for, or Unset
  Unset,       \* std::nullopt of an option
  NoFile       \* a file that is not there, or cannot be opened

-----------------------------------------------------------------------------
(* types.hpp *)

Str == [kind |-> "string", default |-> ""]
Flag(b) == [kind |-> "bool", default |-> b]
Number(n) == [kind |-> "int", default |-> n]

Meta == [format_version |-> Number("1"),
         generator |-> Str, created_at |-> Str, desired_sha256 |-> Str]

FileFields == {"name", "type", "mode", "user", "group", "sha256", "target"}

RecordType ==
  [packages     |-> [f \in {"name", "version", "release", "arch"} |-> Str],
   repositories |-> [alias |-> Str, name |-> Str, url |-> Str, type |-> Str,
                     enabled |-> Flag("true"), gpgcheck |-> Flag("true"),
                     autorefresh |-> Flag("false"), priority |-> Number("99")],
   services     |-> [f \in {"name", "state"} |-> Str],
   config_files |-> [f \in FileFields \cup {"content_ref", "package_name"} |-> Str],
   changed_managed_files |-> [f \in FileFields \cup {"package_name"} |-> Str],
   unmanaged_files       |-> [f \in FileFields |-> Str]]

Scopes == DOMAIN RecordType
Observational == {"changed_managed_files", "unmanaged_files"}

-----------------------------------------------------------------------------
(* From a document to a manifest: json_to_manifest *)

(* What is not of the expected shape has the effect of something that is: a    *)
(* scope that is no object that of one without an array, an element that is     *)
(* null that of one without fields, one that is otherwise no object that of one  *)
(* whose name is composite, a meta that is no object that of one whose version   *)
(* is no integer.                                                            *)

(* asString, asBool and asInt of jsoncpp. *)
Convert(kind, v) ==
  CASE v[1] = "null" -> [string |-> "", bool |-> "false", int |-> "0"][kind]
    [] kind = "bool" /\ v[1] = "int" -> IF v[2] = "0" THEN "false" ELSE "true"
    [] kind = "int" /\ v[1] = "bool" -> IF v[2] = "true" THEN "1" ELSE "0"
    [] OTHER -> v[2]

(* The conversions that throw; nothing above them catches it.  A composite     *)
(* entry of the array `changes' throws as a composite name does, and stands     *)
(* under that; numbers are integers.                                         *)
Throws(kind, v) ==
  \/ v[1] = "composite"
  \/ kind # "string" /\ v[1] = "string"
  \/ kind = "int" /\ v[1] = "int" /\ v[2] \in Wide

ParseRecord(type, e) ==
  [f \in DOMAIN type |-> IF f \in DOMAIN e THEN Convert(type[f].kind, e[f])
                         ELSE type[f].default]

RecordThrows(type, e) ==
  \E f \in DOMAIN type \cap DOMAIN e : Throws(type[f].kind, e[f])

ParseScope(s, d) ==
  [attributes |-> [k \in DOMAIN d.attributes |-> Convert("string", d.attributes[k])],
   elements   |-> IF ~d.array THEN <<>>
                  ELSE [i \in DOMAIN d.elements |-> ParseRecord(RecordType[s], d.elements[i])]]

ScopeThrows(s, d) ==
  \/ \E k \in DOMAIN d.attributes : Throws("string", d.attributes[k])
  \/ d.array /\ \E i \in DOMAIN d.elements : RecordThrows(RecordType[s], d.elements[i])

VersionIsInt(doc) ==
  "format_version" \in DOMAIN doc.meta =>
    doc.meta.format_version[1] = "int" /\ doc.meta.format_version[2] \notin Wide

EmptyFunction == [k \in {} |-> ""]
NoManifest == [meta |-> ParseRecord(Meta, EmptyFunction), scopes |-> EmptyFunction]

Failed(how) == [status |-> how, manifest |-> NoManifest]

JsonToManifest(doc) ==
  IF ~VersionIsInt(doc) THEN Failed("invalid")
  ELSE IF RecordThrows(Meta, doc.meta) \/ \E s \in DOMAIN doc.scopes : ScopeThrows(s, doc.scopes[s])
    THEN Failed("abort")
  ELSE [status |-> "ok",
        manifest |-> [meta   |-> ParseRecord(Meta, doc.meta),
                      scopes |-> [s \in DOMAIN doc.scopes |-> ParseScope(s, doc.scopes[s])]]]

-----------------------------------------------------------------------------
(* The two readers *)

Typed_mutant(t) ==
  IF t \in DOMAIN Decimal THEN <<"int", Decimal[t]>>
  ELSE IF t = "1.10" THEN <<"string", "1.1">>
  ELSE <<"string", t>>

(* yaml_to_json of a scalar: quoting is not looked at. *)
Typed(t) ==
  IF t \in DOMAIN Decimal THEN <<"int", Decimal[t]>>
  ELSE IF t \in {"true", "false"} THEN <<"bool", t>>
  ELSE IF t \in {"null", "~"} THEN <<"null", t>>
  ELSE <<"string", t>>

YamlValue(v) == IF v[1] = "composite" THEN v ELSE Typed(v[2])
YamlValues(f) == [k \in DOMAIN f |-> YamlValue(f[k])]

YamlDocument(doc) ==
  [meta   |-> YamlValues(doc.meta),
   scopes |-> [s \in DOMAIN doc.scopes |->
                 [doc.scopes[s] EXCEPT
                    !.attributes = YamlValues(@),
                    !.elements = [i \in DOMAIN @ |-> YamlValues(@[i])]]]]

EmptyDocument == [meta |-> EmptyFunction, scopes |-> EmptyFunction]

(* A file is [syntax, doc].  The syntax is "json", "yaml", "empty", or "bad":   *)
(* a text that neither reader takes, several documents and unsafe tags among     *)
(* them.  JSON is YAML, and a YAML stream without a document is an empty one.    *)
Read(file, format) ==
  IF file.syntax = "json" /\ format = "json" THEN JsonToManifest(file.doc)
  ELSE IF file.syntax \in {"json", "yaml"} /\ format = "yaml"
    THEN JsonToManifest(YamlDocument(file.doc))
  ELSE IF file.syntax = "empty" /\ format = "yaml" THEN JsonToManifest(EmptyDocument)
  ELSE Failed("invalid")

ResolveFormat(explicit, path, default) ==
  IF explicit # Unset THEN explicit
  ELSE IF path # Unset /\ Extension[path] # Unset THEN Extension[path]
  ELSE default

-----------------------------------------------------------------------------
(* The writer: every field of every scope that is present. *)

Fields_mutant(type, r) == [f \in DOMAIN type \ {"sha256"} |-> <<type[f].kind, r[f]>>]

Fields(type, r) == [f \in DOMAIN type |-> <<type[f].kind, r[f]>>]

SerializeManifest(m, format) ==
  [syntax |-> format,
   doc |-> [meta   |-> Fields(Meta, m.meta),
            scopes |-> [s \in DOMAIN m.scopes |->
              [array      |-> TRUE,
               attributes |-> [k \in DOMAIN m.scopes[s].attributes |->
                                 <<"string", m.scopes[s].attributes[k]>>],
               elements   |-> [i \in DOMAIN m.scopes[s].elements |->
                                 Fields(RecordType[s], m.scopes[s].elements[i])]]]]]

-----------------------------------------------------------------------------
(* canonical_json and canonical_hash: sha256 is injective on what it is given. *)

IdentityKey ==
  [packages |-> {"name", "arch"}, repositories |-> {"alias"},
   services |-> {"name"}, config_files |-> {"name"}]

(* A stable sort puts an element behind the others of its key that come before it. *)
Sorted(s, elements) ==
  LET Key(i) == [f \in IdentityKey[s] |-> elements[i][f]]
      Before(i) == {j \in DOMAIN elements \ {i} : j < i /\ Key(j) = Key(i)}
  IN {<<Cardinality(Before(i)), elements[i]>> : i \in DOMAIN elements}

CanonicalHash_mutant(m) ==
  [meta   |-> [m.meta EXCEPT !.desired_sha256 = "", !.created_at = ""],
   scopes |-> [s \in DOMAIN m.scopes |->
                 IF s \in DOMAIN IdentityKey \ {"services"}
                   THEN [m.scopes[s] EXCEPT !.elements = Sorted(s, @)]
                   ELSE m.scopes[s]]]

CanonicalHash(m) ==
  [meta   |-> [m.meta EXCEPT !.desired_sha256 = "", !.created_at = ""],
   scopes |-> [s \in DOMAIN m.scopes |->
                 IF s \in DOMAIN IdentityKey
                   THEN [m.scopes[s] EXCEPT !.elements = Sorted(s, @)]
                   ELSE m.scopes[s]]]

-----------------------------------------------------------------------------
(* The loaders *)

ValidDesired(m) ==
  /\ m.meta.format_version = "1"
  /\ \A s \in Observational \cap DOMAIN m.scopes : m.scopes[s].elements = <<>>

Without(m, scopes) == [m EXCEPT !.scopes = [s \in (DOMAIN @) \ scopes |-> @[s]]]

LoadDesiredManifest(file, format) ==
  IF file = NoFile THEN Failed("unreadable")
  ELSE LET r == Read(file, format) IN
    IF r.status = "ok" /\ ~ValidDesired(r.manifest) THEN Failed("invalid")
    ELSE [r EXCEPT !.manifest = Without(@, Observational)]

LoadStateDump(file, format) ==
  IF file = NoFile THEN Failed("unreadable")
  ELSE LET r == Read(file, format) IN
    IF r.status = "ok" /\ r.manifest.meta.format_version # "1" THEN Failed("invalid") ELSE r

(* The applied record is always JSON, and of any version. *)
LoadAppliedRecord(file) ==
  IF file = NoFile THEN Failed("absent") ELSE Read(file, "json")
=============================================================================
