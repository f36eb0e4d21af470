-------------------------- MODULE MCStaticConstructors --------------------------
EXTENDS StaticConstructors, MCPrograms

MCHelper == {Helper(Straight)}
===============================================================================
