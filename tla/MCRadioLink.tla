---- MODULE MCRadioLink ----
EXTENDS RadioLink
====
