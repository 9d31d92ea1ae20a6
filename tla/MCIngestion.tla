---- MODULE MCIngestion ----
EXTENDS Ingestion

MCMessage == {[error |-> "npe", patterns |-> {"javaTrace", "errorWord"}],
              [error |-> "started", patterns |-> {}]}

MCSetup == {[simulate |-> FALSE, isolate |-> FALSE, image |-> FALSE, found |-> TRUE],
            [simulate |-> FALSE, isolate |-> TRUE, image |-> FALSE, found |-> TRUE]}
====
