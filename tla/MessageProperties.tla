--------------------------- MODULE MessageProperties ---------------------------
(***************************************************************************)
(* The properties that JMSPublisher attaches to a message.                 *)
(*                                                                         *)
(* An instance has one JMSProperties bean, which JMSCatalogListener and    *)
(* JMSConfigurationListener both use.  JMSCatalogListener clones it to add *)
(* the parameters of the REST request, but the clone refers to the same    *)
(* java.util.Properties: whatever is put into it stays, and is seen by     *)
(* every thread that publishes.  Here the properties are the name of the   *)
(* handler SPI, which tells the receiver what to do with the message, and  *)
(* the option "purge" of a style removal.                                  *)
(***************************************************************************)
EXTENDS Naturals, Sequences

CONSTANTS
    Thread,   \* request threads of the servlet container
    Purge,    \* the values a request may give to "purge"
    Unset     \* no value

ASSUME UnsetAssumption == Unset \notin Purge

AddSPI == "JMSCatalogAddEventHandlerSPI"
ModifySPI == "JMSCatalogModifyEventHandlerSPI"
RemoveSPI == "JMSCatalogRemoveEventHandlerSPI"
StylesFileSPI == "JMSCatalogStylesFileHandlerSPI"
ConfigurationSPI == "JMSGeoServerHandlerSPI"

Spi == {AddSPI, ModifySPI, RemoveSPI, StylesFileSPI, ConfigurationSPI}

VARIABLES
    properties,  \* the shared java.util.Properties
    parameters,  \* parameters[t]: the thread local of RestDispatcherCallback
    asked,       \* asked[t]: what the request t serves says about "purge"
    todo,        \* todo[t]: the handlers of the messages t has still to send
    pc,          \* pc[t]: where t is in the listener or in publish()
    message      \* the last message given to the broker

vars == <<properties, parameters, asked, todo, pc, message>>

Option == Purge \cup {Unset}

NoMessage == [payload |-> Unset]

Message == [payload : Spi, spi : Spi \cup {Unset}, purge : Option, asked : Option]

\* The messages of one change: the file of a style goes before its event.
Job ==
    {<<AddSPI>>, <<ModifySPI>>, <<RemoveSPI>>,
     <<StylesFileSPI, AddSPI>>, <<StylesFileSPI, ModifySPI>>,
     <<ConfigurationSPI>>}

TypeOK ==
    /\ properties \in [spi : Spi \cup {Unset}, purge : Option]
    /\ parameters \in [Thread -> Option]
    /\ asked \in [Thread -> Option]
    /\ todo \in [Thread -> Seq(Spi)]
    /\ pc \in [Thread -> {"idle", "options", "tag", "send"}]
    /\ \A t \in Thread : (pc[t] = "idle") = (todo[t] = <<>>)
    /\ message \in Message \cup {NoMessage}

Init ==
    /\ properties = [spi |-> Unset, purge |-> Unset]
    /\ parameters = [t \in Thread |-> Unset]
    /\ asked = [t \in Thread |-> Unset]
    /\ todo = [t \in Thread |-> <<>>]
    /\ pc = [t \in Thread |-> "idle"]
    /\ message = NoMessage

-----------------------------------------------------------------------------
\* A change of the catalog passes through updateProperties, one of the
\* configuration does not, and takes no options.
Begin(t, job, purge) ==
    /\ pc[t] = "idle"
    /\ todo' = [todo EXCEPT ![t] = job]
    /\ IF job = <<ConfigurationSPI>>
          THEN /\ pc' = [pc EXCEPT ![t] = "tag"]
               /\ asked' = [asked EXCEPT ![t] = Unset]
          ELSE /\ pc' = [pc EXCEPT ![t] = "options"]
               /\ asked' = [asked EXCEPT ![t] = purge]
    /\ UNCHANGED <<properties, message>>

\* RestDispatcherCallback.init: the thread local keeps the parameters of the
\* request; nothing takes them away when the request is finished.
RestRequest(t, job, purge) ==
    /\ Begin(t, job, purge)
    /\ parameters' = [parameters EXCEPT ![t] = purge]

\* The user interface does not go through the REST dispatcher.
GuiRequest(t, job) ==
    /\ Begin(t, job, Unset)
    /\ UNCHANGED parameters

\* Mutant: the parameters of the request are not added.
UpdatePropertiesForgotten(t) ==
    /\ pc[t] = "options"
    /\ pc' = [pc EXCEPT ![t] = "tag"]
    /\ UNCHANGED <<properties, parameters, asked, todo, message>>

\* JMSCatalogListener.updateProperties: the "copy" shares the Properties.
UpdateProperties(t) ==
    /\ pc[t] = "options"
    /\ properties' =
          [properties EXCEPT !.purge =
              IF parameters[t] = Unset THEN @ ELSE parameters[t]]
    /\ pc' = [pc EXCEPT ![t] = "tag"]
    /\ UNCHANGED <<parameters, asked, todo, message>>

\* Mutant: a tag that is there is kept.
TagOnce(t) ==
    /\ pc[t] = "tag"
    /\ properties' =
          [properties EXCEPT !.spi = IF @ = Unset THEN Head(todo[t]) ELSE @]
    /\ pc' = [pc EXCEPT ![t] = "send"]
    /\ UNCHANGED <<parameters, asked, todo, message>>

\* JMSPublisher.publish: props.put(key, handler.getGeneratorClass()) ...
Tag(t) ==
    /\ pc[t] = "tag"
    /\ properties' = [properties EXCEPT !.spi = Head(todo[t])]
    /\ pc' = [pc EXCEPT ![t] = "send"]
    /\ UNCHANGED <<parameters, asked, todo, message>>

\* Mutant: the thread is idle before the last message is sent.
SendTooShort(t) ==
    /\ pc[t] = "send"
    /\ message' = [payload |-> Head(todo[t]), spi |-> properties.spi,
                   purge |-> properties.purge, asked |-> asked[t]]
    /\ todo' = [todo EXCEPT ![t] = Tail(@)]
    /\ pc' = [pc EXCEPT ![t] = "idle"]
    /\ UNCHANGED <<properties, parameters, asked>>

\* ... and JMSObjectMessageCreator.updateProperties, called back by the template
\* when it has a session, copies what the Properties hold by then.
Send(t) ==
    /\ pc[t] = "send"
    /\ message' = [payload |-> Head(todo[t]), spi |-> properties.spi,
                   purge |-> properties.purge, asked |-> asked[t]]
    /\ todo' = [todo EXCEPT ![t] = Tail(@)]
    /\ pc' = [pc EXCEPT ![t] = IF Len(todo[t]) > 1 THEN "tag" ELSE "idle"]
    /\ UNCHANGED <<properties, parameters, asked>>

Next ==
    \E t \in Thread :
        \/ \E job \in Job :
              \/ \E purge \in Option : RestRequest(t, job, purge)
              \/ GuiRequest(t, job)
        \/ UpdateProperties(t)
        \/ Tag(t)
        \/ Send(t)

Spec == Init /\ [][Next]_vars

-----------------------------------------------------------------------------
(***************************************************************************)
(* The receiver creates the handler whose name the message carries:        *)
(* JMSEventHandlerSPI.java:26 promises the one "used to serialize the      *)
(* message".  The code keeps this as long as one thread publishes.         *)
(***************************************************************************)
TagMatchesPayload == message # NoMessage => message.spi = message.payload

(***************************************************************************)
(* A style that a REST client asked to purge, or not to, is removed with   *)
(* that option on the other instances, as long as one thread publishes.    *)
(***************************************************************************)
PurgeReachesSlaves ==
    message # NoMessage /\ message.asked # Unset =>
        message.purge = message.asked

(***************************************************************************)
(* JMSCatalogListener.java:89: the options are added to "a copy of the     *)
(* getProperties() object", so a message has no option that its own        *)
(* request did not give.                                                   *)
(***************************************************************************)
OptionsAreOwn == message # NoMessage => message.purge = message.asked

=============================================================================
